---- MODULE Spec2Model ----
(***************************************************************************)
(* Model of TB-keithley2600: the dual/single channel sweep executor and    *)
(* curve recorders of _Keithley2600Extend (keithley2600_extend.py), the    *)
(* instance factory Keithley2600ExtendFactory, and the stabilization loop  *)
(* ATBProcedure.stabilize_TB (procedures.py).                              *)
(*                                                                         *)
(* Numbers that the program holds as floats (voltages, currents) are       *)
(* modelled on an integer grid.                                            *)
(***************************************************************************)
EXTENDS Integers, Sequences, FiniteSets, TLC

VARIABLES
    ax,           \* axis construction of a curve recorder: inputs and outputs
    instances,    \* Keithley2600ExtendFactory._instances
    nextId,       \* identity of the next _Keithley2600Extend object constructed
    requests,     \* history: the factory requests made and what each returned
    stab,         \* one run of ATBProcedure.stabilize_TB
    abort_event,  \* Keithley2600.abort_event (threading.Event)
    lock,         \* Keithley2600._measurement_lock (re-entrant)
    th,           \* per caller thread: position in the sweep / recorder code
    hw,           \* the instrument: trigger model fields, buffers, status
    calls,        \* number of top-level calls made so far
    trig,         \* the trigger layer of each channel during one programmed sweep
    proc,         \* one run of TBGProcedure.execute / TBIVProcedure.execute
    seq           \* one sweep call statement by statement: position, writes made

vars == <<ax, instances, nextId, requests, stab, abort_event, lock, th, hw, calls, trig,
          proc, seq>>

(***************************************************************************)
(* Bounds of the model.                                                    *)
(***************************************************************************)
MaxV == 5          \* |start|, |stop| of an axis
MaxStep == 2       \* |step| of an axis
MaxReq == 4        \* factory requests in one run
MaxAddr == 3       \* distinct visa addresses
MaxPolls == 3      \* poll cycles of stabilize_TB
MaxLen == 2        \* length of a sweep list given directly to a sweep
MaxCalls == 2      \* top-level calls on the instrument in one run
MaxOuter == 2      \* length of a recorder's outer list
MaxRecStop == 1    \* stop value of a recorder's primary axis (start 0, step 1)

(***************************************************************************)
(* Sequences helpers.                                                      *)
(***************************************************************************)
\* np.flip(a, 0)
FlipSame(s) == s
Flip(s) == [k \in 1..Len(s) |-> s[Len(s) + 1 - k]]

\* np.ones_like / np.zeros_like / np.full_like
FullLike(s, v) == [k \in 1..Len(s) |-> v]

\* np.sign
Sign(x) == IF x > 0 THEN 1 ELSE IF x < 0 THEN -1 ELSE 0

\* abs
Abs(x) == IF x < 0 THEN -x ELSE x

\* ceil(x / s) for s # 0
CeilDiv(x, s) ==
    IF s > 0 THEN (x + s - 1) \div s ELSE ((-x) + (-s) - 1) \div (-s)

\* np.arange(a, b, s): raises for s = 0, else max(0, ceil((b - a) / s)) points
ArangeFails(a, b, s) == s = 0
ArangeLen(a, b, s) == IF CeilDiv(b - a, s) > 0 THEN CeilDiv(b - a, s) ELSE 0
Arange(a, b, s) == [k \in 1..ArangeLen(a, b, s) |-> a + (k - 1) * s]

(***************************************************************************)
(* Axis construction of the curve recorders                                *)
(* (transfer_measurement_i lines 316-325).                                 *)
(***************************************************************************)
\* step = np.sign(vg_stop - vg_start) * abs(vg_step)
AxisStep(start, stop, step) == Sign(stop - start) * Abs(step)

AxisFails(start, stop, step) ==
    ArangeFails(start, stop + AxisStep(start, stop, step), AxisStep(start, stop, step))

\* sweeplist_gate_fwd = np.arange(vg_start, vg_stop + step, step)
SweeplistFwd(start, stop, step) ==
    Arange(start, stop + AxisStep(start, stop, step), AxisStep(start, stop, step))

\* sweeplist_gate = np.append(fwd, np.flip(fwd, 0))
SweeplistGate(start, stop, step) ==
    SweeplistFwd(start, stop, step) \o Flip(SweeplistFwd(start, stop, step))

\* direction_gate_fwd = np.append(np.ones_like(fwd), np.zeros_like(rvs))
DirectionGateFwd(start, stop, step) ==
    FullLike(SweeplistFwd(start, stop, step), 1)
        \o FullLike(Flip(SweeplistFwd(start, stop, step)), 0)

OthersOfAxis ==
    <<instances, nextId, requests, stab, abort_event, lock, th, hw, calls, trig, proc, seq>>

AxIdle == [phase |-> "off", start |-> 0, stop |-> 0, step |-> 0,
           fwd |-> <<>>, axis |-> <<>>, dir |-> <<>>]

InitAxis ==
    \E a \in -MaxV..MaxV, b \in -MaxV..MaxV, s \in -MaxStep..MaxStep :
        ax = [AxIdle EXCEPT !.phase = "args", !.start = a, !.stop = b, !.step = s]

BuildAxis ==
    /\ ax.phase = "args"
    /\ ~AxisFails(ax.start, ax.stop, ax.step)
    /\ ax' = [ax EXCEPT !.phase = "built",
                        !.fwd = SweeplistFwd(ax.start, ax.stop, ax.step),
                        !.axis = SweeplistGate(ax.start, ax.stop, ax.step),
                        !.dir = DirectionGateFwd(ax.start, ax.stop, ax.step)]
    /\ UNCHANGED OthersOfAxis

BuildAxisRaises ==
    /\ ax.phase = "args"
    /\ AxisFails(ax.start, ax.stop, ax.step)
    /\ ax' = [ax EXCEPT !.phase = "raised"]
    /\ UNCHANGED OthersOfAxis

(***************************************************************************)
(* Keithley2600ExtendFactory.__new__ (lines 752-771).                      *)
(***************************************************************************)
Addresses == 1..MaxAddr

\* for instance in cls._instances: if instance.visa_address == address
Matching(address) == {i \in instances : i.visa_address = address}

\* cls._instances.add(instance)
RegisterNone(insts, inst) == insts
Register(insts, inst) == insts \cup {inst}

OthersOfFactory == <<ax, stab, abort_event, lock, th, hw, calls, trig, proc, seq>>

FactoryIdle == instances = {} /\ nextId = 1 /\ requests = <<>>

FactoryReturnExisting(address) ==
    /\ Len(requests) < MaxReq
    /\ \E i \in Matching(address) :
          requests' = Append(requests, [address |-> address, instance |-> i.id])
    /\ UNCHANGED <<instances, nextId>>
    /\ UNCHANGED OthersOfFactory

FactoryCreate(address) ==
    /\ Len(requests) < MaxReq
    /\ Matching(address) = {}
    /\ instances' = Register(instances, [id |-> nextId, visa_address |-> address])
    /\ nextId' = nextId + 1
    /\ requests' = Append(requests, [address |-> address, instance |-> nextId])
    /\ UNCHANGED OthersOfFactory

(***************************************************************************)
(* ATBProcedure.stabilize_TB (procedures.py lines 79-162).                 *)
(***************************************************************************)
\* status codes the feedback controller may report
StatusCodes == {0, 99, 100, 150, 199, 200, 250}

\* settings['wait_after_stab_T'], settings['wait_after_stab_M'] values tried
WaitValues == {5, 10}

\* 100 <= status < 200
InBandClosed(c) == 100 <= c /\ c <= 200
InBand(c) == 100 <= c /\ c < 200

\* is_temperature_stable / is_m_field_stable: inactive targets are stable
IsStableAlways(active, c) == TRUE
IsStable(active, c) == IF active THEN InBand(c) ELSE TRUE

\* set_temperature / set_m_field: setParameter only when the target is active
SetpointWritesAlways(active) == 1
SetpointWrites(active) == IF active THEN 1 ELSE 0

\* values a controller may report as the current temperature or field
ControllerReadings == {300}

\* get_temperature / get_m_field (lines 79-83, 95-99): the controller's value
\* for an active target, the sentinel -1.0 otherwise
GetValue(active, reading) == IF active THEN reading ELSE -1

\* the number of controller calls an accessor makes for its target when its
\* body would make k of them: none unless the target is active
ControllerCallsAlways(active, k) == k
ControllerCalls(active, k) == IF active THEN k ELSE 0

\* check_secnode (lines 70-76): connect unless already connected
Connects(connected) == IF connected THEN 0 ELSE 1

\* the controller calls made for one target: connects caused by its accessors,
\* setpoint writes, status reads, value reads
NoCalls == [connect |-> 0, set |-> 0, status |-> 0, value |-> 0]

\* set_temperature / set_m_field (lines 86-92, 102-108)
AfterSet(ctl, active, connected) ==
    [ctl EXCEPT !.connect = @ + ControllerCalls(active, Connects(connected)),
                !.set = @ + ControllerCalls(active, 1)]

\* is_temperature_stable followed by get_temperature in the log line (lines
\* 140-145; 146-151 for the field), made while the target's flag is False
AfterPoll(ctl, active, stable, connected) ==
    IF stable THEN ctl
    ELSE [ctl EXCEPT !.connect = @ + ControllerCalls(active, Connects(connected)),
                     !.status = @ + ControllerCalls(active, 1),
                     !.value = @ + ControllerCalls(active, 1)]

\* the stop check after the loop (lines 153-155)
PostLoopStopSkipped(flag) == FALSE
PostLoopStop(flag) == flag

\* sleep_secs = np.max([wait_after_stab_M, wait_after_stab_T])
SleepSecs(wM, wT) == IF wM >= wT THEN wM ELSE wT

\* startup (lines 56-61): check_secnode() when either target is active
StartupConnected(ta, ma) == ta \/ ma

OthersOfStab ==
    <<ax, instances, nextId, requests, abort_event, lock, th, hw, calls, trig, proc, seq>>

StabIdle ==
    [pc |-> "off", t_active |-> FALSE, m_active |-> FALSE, wait_T |-> 0, wait_M |-> 0,
     stop |-> FALSE, t_stable |-> FALSE, m_stable |-> FALSE,
     t_code |-> -1, m_code |-> -1, t_now |-> -1, m_now |-> -1,
     t_at |-> 0, m_at |-> 0, sp_writes |-> 0, top_checks |-> 0, polls |-> 0,
     stop_at_top |-> FALSE, post_checks |-> 0, stop_at_post |-> FALSE,
     slept |-> -1, result |-> "none",
     connected |-> FALSE, t_ctl |-> NoCalls, m_ctl |-> NoCalls,
     t_value |-> 0, m_value |-> 0]

InitStab ==
    \E ta \in BOOLEAN, ma \in BOOLEAN, wt \in WaitValues, wm \in WaitValues, s \in BOOLEAN :
        stab = [StabIdle EXCEPT !.pc = "entry", !.t_active = ta, !.m_active = ma,
                                !.wait_T = wt, !.wait_M = wm, !.stop = s,
                                !.connected = StartupConnected(ta, ma)]

\* the worker's stop request: should_stop() turns true
StabSetStop ==
    /\ stab.pc \notin {"off", "done"}
    /\ ~stab.stop
    /\ stab' = [stab EXCEPT !.stop = TRUE]
    /\ UNCHANGED OthersOfStab

\* lines 127-133: write both setpoints, t_stable = m_stable = False
StabEntry ==
    /\ stab.pc = "entry"
    /\ stab' = [stab EXCEPT !.pc = "loop",
                            !.sp_writes = SetpointWrites(stab.t_active)
                                          + SetpointWrites(stab.m_active),
                            !.t_stable = FALSE, !.m_stable = FALSE,
                            !.t_ctl = AfterSet(@, stab.t_active, stab.connected),
                            !.m_ctl = AfterSet(@, stab.m_active, stab.connected),
                            !.connected = @ \/ stab.t_active \/ stab.m_active]
    /\ UNCHANGED OthersOfStab

\* lines 134-137: the loop condition holds and should_stop() is true
StabLoopStopped ==
    /\ stab.pc = "loop"
    /\ ~(stab.t_stable /\ stab.m_stable)
    /\ stab.stop
    /\ stab' = [stab EXCEPT !.pc = "done", !.result = "stopped",
                            !.top_checks = @ + 1, !.stop_at_top = TRUE]
    /\ UNCHANGED OthersOfStab

\* the status code a target's controller holds during a poll cycle (-1: the
\* target is inactive and has no controller to ask)
StatusNow(active) == IF active THEN StatusCodes ELSE {-1}

\* the status a poll cycle reads for a target: the controller's code when the
\* target is active and not yet stable (getParameter(.., "status")); a target
\* whose flag is already True is not read again ("if not t_stable:")
StatusRead(active, stable, last, now) ==
    IF active /\ ~stable THEN now ELSE last

\* lines 134-151: one poll cycle (sleep(1), then read the status of each
\* target that is not yet stable)
StabPoll ==
    /\ stab.pc = "loop"
    /\ ~(stab.t_stable /\ stab.m_stable)
    /\ ~stab.stop
    /\ stab.polls < MaxPolls
    /\ \E nt \in StatusNow(stab.t_active), nm \in StatusNow(stab.m_active),
          rt \in ControllerReadings, rm \in ControllerReadings :
          LET ct == StatusRead(stab.t_active, stab.t_stable, stab.t_code, nt)
              cm == StatusRead(stab.m_active, stab.m_stable, stab.m_code, nm)
              ts == IF stab.t_stable THEN TRUE ELSE IsStable(stab.t_active, ct)
              ms == IF stab.m_stable THEN TRUE ELSE IsStable(stab.m_active, cm)
          IN  stab' = [stab EXCEPT
                !.top_checks = @ + 1, !.polls = @ + 1,
                !.t_now = nt, !.m_now = nm,
                !.t_code = ct,
                !.m_code = cm,
                !.t_at = IF ~stab.t_stable /\ ts THEN stab.polls + 1 ELSE @,
                !.m_at = IF ~stab.m_stable /\ ms THEN stab.polls + 1 ELSE @,
                !.t_stable = ts,
                !.m_stable = ms,
                !.t_ctl = AfterPoll(@, stab.t_active, stab.t_stable, stab.connected),
                !.m_ctl = AfterPoll(@, stab.m_active, stab.m_stable, stab.connected),
                !.t_value = IF stab.t_stable THEN @ ELSE GetValue(stab.t_active, rt),
                !.m_value = IF stab.m_stable THEN @ ELSE GetValue(stab.m_active, rm)]
    /\ UNCHANGED OthersOfStab

\* lines 153-155: the loop has exited and should_stop() is true
StabPostStopped ==
    /\ stab.pc = "loop"
    /\ stab.t_stable /\ stab.m_stable
    /\ PostLoopStop(stab.stop)
    /\ stab' = [stab EXCEPT !.pc = "done", !.result = "stopped",
                            !.post_checks = @ + 1, !.stop_at_post = stab.stop]
    /\ UNCHANGED OthersOfStab

\* lines 157-162: post-settle sleep when a target is active, return False
StabProceed ==
    /\ stab.pc = "loop"
    /\ stab.t_stable /\ stab.m_stable
    /\ ~PostLoopStop(stab.stop)
    /\ stab' = [stab EXCEPT !.pc = "done", !.result = "proceed",
                            !.post_checks = @ + 1, !.stop_at_post = stab.stop,
                            !.slept = IF stab.t_active \/ stab.m_active
                                      THEN SleepSecs(stab.wait_M, stab.wait_T)
                                      ELSE -1]
    /\ UNCHANGED OthersOfStab

(***************************************************************************)
(* The instrument as the sweep code sees it: per channel the trigger model *)
(* fields the code writes, the two reading buffers, the output switch and  *)
(* the sweeping status bit; the two event blenders; the global trigger.    *)
(* A reading is recorded as the number (gen) of the sweep that took it.    *)
(***************************************************************************)
Channels == {"smua", "smub"}
Threads == {"t1", "t2"}

Other(c) == IF c = "smua" THEN "smub" ELSE "smua"

NoEvent == [smu |-> "none", ev |-> "none"]
Event(c, e) == [smu |-> c, ev |-> e]
\* self.trigger.EVENT_ID, self.trigger.blender[n].EVENT_ID
GlobalTrg == [smu |-> "global", ev |-> "trg"]
BlenderEvent(n) == [smu |-> "blender", ev |-> IF n = 1 THEN "b1" ELSE "b2"]

HwInit ==
    [listn |-> [c \in Channels |-> 0],
     count |-> [c \in Channels |-> 1],
     buf1 |-> [c \in Channels |-> <<>>],
     buf2 |-> [c \in Channels |-> <<>>],
     meas_stim |-> [c \in Channels |-> NoEvent],
     src_stim |-> [c \in Channels |-> NoEvent],
     arm_stim |-> [c \in Channels |-> NoEvent],
     endpulse_stim |-> [c \in Channels |-> NoEvent],
     endpulse_action |-> [c \in Channels |-> -1],
     endsweep_action |-> [c \in Channels |-> -1],
     blender |-> [b \in 1..2 |-> [orenable |-> FALSE, s1 |-> NoEvent, s2 |-> NoEvent]],
     output |-> [c \in Channels |-> FALSE],
     chan |-> [c \in Channels |-> "idle"],
     k |-> [c \in Channels |-> 0],
     trg |-> FALSE,
     gen |-> 0,
     writer |-> "none"]

\* trigger.count = npts = len(sweeplist)
TriggerCountShort(npts) == npts - 1
TriggerCount(npts) == npts

\* values passed as the 'pulsed' argument, written as Python literals: the two
\* booleans, and values that are not of type bool
PyBool == {"True", "False"}
PulsedValues == PyBool \cup {"0", "1", "None", "'yes'"}

\* the truth value Python gives the argument in "if pulsed" (bool(pulsed))
Truthy(p) == p \in {"True", "1", "'yes'"}

\* lines 179-184 / 665-670: if pulsed: .. elif not pulsed: .. else: raise TypeError
PulsedBranch(p) ==
    IF Truthy(p) THEN "SOURCE_IDLE"
    ELSE IF ~Truthy(p) THEN "SOURCE_HOLD"
    ELSE "TypeError"

\* end_pulse_action: 0 SOURCE_IDLE, 1 SOURCE_HOLD
EndPulseAction(pulsed) == IF PulsedBranch(pulsed) = "SOURCE_IDLE" THEN 0 ELSE 1

\* nvbuffer1.clear(), nvbuffer2.clear() and their clearcache() for the channels cs
ClearBuffersNone(h, cs) == h
ClearBuffers(h, cs) ==
    [h EXCEPT !.buf1 = [c \in Channels |-> IF c \in cs THEN <<>> ELSE @[c]],
              !.buf2 = [c \in Channels |-> IF c \in cs THEN <<>> ELSE @[c]]]

\* lines 166-167: the measure stimulus of channel c in a dual sweep whose
\* current source is smui
MeasureStimulusOwn(smui, c) == Event(c, "SOURCE_COMPLETE")
MeasureStimulus(smui, c) == Event(smui, "SOURCE_COMPLETE")

\* current_voltage_sweep_dual_smu lines 82-188: lists, buffers cleared, counts,
\* measure stimulus of both channels, end-of-pulse and end-of-sweep actions
\* (the actions are not written when the TypeError of line 184 is raised)
DualConfigure(h, t, smui, smuv, nI, nV, pulsed) ==
    [ClearBuffers(h, {smui, smuv}) EXCEPT
        !.listn = [c \in Channels |-> IF c = smui THEN nI ELSE nV],
        !.count = [c \in Channels |-> TriggerCount(nI)],
        !.meas_stim = [c \in Channels |-> MeasureStimulus(smui, c)],
        !.endpulse_action = IF PulsedBranch(pulsed) = "TypeError" THEN @
                            ELSE [c \in Channels |-> EndPulseAction(pulsed)],
        !.endsweep_action = IF PulsedBranch(pulsed) = "TypeError" THEN @
                            ELSE [c \in Channels |-> EndPulseAction(pulsed)],
        !.gen = @ + 1,
        !.writer = t]

\* lines 195-236: arm stimulus, both blenders, outputs on, initiate both
\* channels, send_trigger()
DualArm(h, t, smui, smuv) ==
    [h EXCEPT
        !.arm_stim[smui] = GlobalTrg,
        !.blender[1] = [orenable |-> TRUE, s1 |-> Event(smui, "ARMED"),
                        s2 |-> Event(smui, "PULSE_COMPLETE")],
        !.src_stim[smui] = BlenderEvent(1),
        !.blender[2] = [orenable |-> FALSE, s1 |-> Event(smui, "MEASURE_COMPLETE"),
                        s2 |-> Event(smuv, "MEASURE_COMPLETE")],
        !.endpulse_stim[smui] = BlenderEvent(2),
        !.output = [c \in Channels |-> TRUE],
        !.chan = [c \in Channels |-> "initiated"],
        !.k = [c \in Channels |-> 0],
        !.trg = TRUE,
        !.writer = t]

\* current_sweep_single_smu lines 598-677
SingleConfigure(h, t, smu, n, pulsed) ==
    [ClearBuffers(h, {smu}) EXCEPT
        !.listn[smu] = n,
        !.count[smu] = TriggerCount(n),
        !.meas_stim[smu] = Event(smu, "SOURCE_COMPLETE"),
        !.endpulse_action[smu] = IF PulsedBranch(pulsed) = "TypeError" THEN @
                                 ELSE EndPulseAction(pulsed),
        !.endsweep_action[smu] = IF PulsedBranch(pulsed) = "TypeError" THEN @
                                 ELSE EndPulseAction(pulsed),
        !.gen = @ + 1,
        !.writer = t]

\* lines 684-722; blender 2 gets orenable = True and only stimulus[1]
SingleArm(h, t, smu) ==
    [h EXCEPT
        !.arm_stim[smu] = GlobalTrg,
        !.blender[1] = [orenable |-> TRUE, s1 |-> Event(smu, "ARMED"),
                        s2 |-> Event(smu, "PULSE_COMPLETE")],
        !.src_stim[smu] = BlenderEvent(1),
        !.blender[2] = [@ EXCEPT !.orenable = TRUE,
                                 !.s1 = Event(smu, "MEASURE_COMPLETE")],
        !.endpulse_stim[smu] = BlenderEvent(2),
        !.output[smu] = TRUE,
        !.chan[smu] = "initiated",
        !.k[smu] = 0,
        !.trg = TRUE,
        !.writer = t]

\* self.status.operation.sweeping.condition: 2 = smua, 4 = smub, 6 = both
SweepingCondition(h) ==
    (IF h.chan["smua"] = "sweeping" THEN 2 ELSE 0)
        + (IF h.chan["smub"] = "sweeping" THEN 4 ELSE 0)

\* the wait for the sweep to begin (line 246) and to end (line 250) are over
SweepBegunAlways(h) == TRUE
SweepBegun(h) == SweepingCondition(h) # 0
SweepEndedAlways(h) == TRUE
SweepEnded(h) == ~(SweepingCondition(h) > 0)

\* self.reset(): trigger model and outputs back to the defaults
ResetNone(h) == h
Reset(h) ==
    [HwInit EXCEPT !.buf1 = h.buf1, !.buf2 = h.buf2, !.gen = h.gen, !.writer = h.writer]

(***************************************************************************)
(* The instrument's own steps.  After initiate and the global trigger the  *)
(* initiated channels start sweeping; one trigger step takes one reading   *)
(* into both buffers of every sweeping channel; after trigger.count steps  *)
(* the channel is idle again.                                              *)
(***************************************************************************)
\* the variables no step of the instrument or of a caller thread changes
OthersOfInstr == <<ax, instances, nextId, requests, stab, trig, proc, seq>>

InstrBegin ==
    /\ hw.trg
    /\ \E c \in Channels : hw.chan[c] = "initiated"
    /\ hw' = [hw EXCEPT !.trg = FALSE,
                        !.chan = [c \in Channels |->
                                    IF @[c] = "initiated" THEN "sweeping" ELSE @[c]]]
    /\ UNCHANGED <<abort_event, lock, th, calls>>
    /\ UNCHANGED OthersOfInstr

InstrStep ==
    /\ \E c \in Channels : hw.chan[c] = "sweeping" /\ hw.k[c] < hw.count[c]
    /\ hw' = [hw EXCEPT
          !.buf1 = [c \in Channels |->
                      IF hw.chan[c] = "sweeping" /\ hw.k[c] < hw.count[c]
                      THEN Append(@[c], hw.gen) ELSE @[c]],
          !.buf2 = [c \in Channels |->
                      IF hw.chan[c] = "sweeping" /\ hw.k[c] < hw.count[c]
                      THEN Append(@[c], hw.gen) ELSE @[c]],
          !.k = [c \in Channels |->
                      IF hw.chan[c] = "sweeping" /\ hw.k[c] < hw.count[c]
                      THEN @[c] + 1 ELSE @[c]]]
    /\ UNCHANGED <<abort_event, lock, th, calls>>
    /\ UNCHANGED OthersOfInstr

InstrEnd ==
    /\ \E c \in Channels : hw.chan[c] = "sweeping"
    /\ \A c \in Channels : hw.chan[c] = "sweeping" => hw.k[c] >= hw.count[c]
    /\ hw' = [hw EXCEPT !.chan = [c \in Channels |->
                                    IF @[c] = "sweeping" THEN "idle" ELSE @[c]]]
    /\ UNCHANGED <<abort_event, lock, th, calls>>
    /\ UNCHANGED OthersOfInstr

(***************************************************************************)
(* The measurement lock: "with self._measurement_lock:" on a re-entrant    *)
(* lock, so a recorder that holds it enters the sweep it calls.            *)
(***************************************************************************)
LockFree == [owner |-> "none", depth |-> 0]

CanAcquireUnlocked(t) == TRUE
CanAcquire(t) == lock.owner \in {"none", t}

Acquire(t) == [owner |-> t, depth |-> lock.depth + 1]

ReleaseKept(t) == lock
Release(t) == IF lock.depth <= 1 THEN LockFree ELSE [lock EXCEPT !.depth = @ - 1]

(***************************************************************************)
(* Caller threads.                                                         *)
(***************************************************************************)
RetNone == [kind |-> "none", v_smui |-> <<>>, i_smui |-> <<>>,
            v_smuv |-> <<>>, i_smuv |-> <<>>]
\* v_smui, i_smui, v_smuv, i_smuv = [], [], [], []
RetEmpty == [RetNone EXCEPT !.kind = "vectors"]
RetValueError == [RetNone EXCEPT !.kind = "ValueError"]
RetTypeError == [RetNone EXCEPT !.kind = "TypeError"]

\* (gen in a caller's record: the number of the sweep it last programmed;
\* obs: the values of the sweeping status that ended its two polling loops)
\* where a caller was when abort_event was last set: the iteration, and whether
\* it stood at the start of the iteration ("iter") or further inside it ("body")
AbNone == [at |-> "none", idx |-> 0]

ThIdle ==
    [pc |-> "idle", op |-> "none", sw |-> "none", smui |-> "smua", smuv |-> "smub",
     nI |-> 0, nV |-> 0, pulsed |-> "False", ret |-> RetNone, writes |-> 0,
     abortAtCall |-> FALSE, abortAtCheck |-> FALSE, hw0 |-> HwInit, touched |-> FALSE,
     args |-> <<0, 0, 0>>, outer |-> 0, idx |-> 0, axisN |-> 0, table |-> <<>>,
     cbs |-> 0, beeps |-> 0, resets |-> 0, outcome |-> "none", ab |-> AbNone,
     gen |-> 0, callback |-> TRUE, cbArgs |-> <<>>, obs |-> <<>>]

Recorders == {"transfer_i", "transfer_v", "iv_v"}
InSweep == {"sw_check", "sw_arm", "sw_poll_a", "sw_poll_b", "sw_read"}
InRecorder == {"rec_init", "rec_iter", "rec_post"}

\* the primary axis a recorder sweeps: forward and reverse for the transfer
\* recorders (lines 317-320, 422-425), forward only for iv_measurement_v (517-518)
RecorderAxis(kind, a) ==
    IF kind = "iv_v" THEN SweeplistFwd(a[1], a[2], a[3])
    ELSE SweeplistGate(a[1], a[2], a[3])

InstrIdle ==
    /\ abort_event = FALSE
    /\ lock = LockFree
    /\ th = [t \in Threads |-> ThIdle]
    /\ hw = HwInit
    /\ calls = 0

\* the frame of a call of current_sweep_single_smu / of a curve recorder
\* (flag: abort_event as the call is made)
SingleFrame(smu, n, pulsed, flag) ==
    [ThIdle EXCEPT !.pc = "sw_lock", !.op = "single", !.sw = "single",
                   !.smui = smu, !.smuv = smu,
                   !.nI = n, !.nV = n, !.pulsed = pulsed,
                   !.abortAtCall = flag]

RecorderFrame(kind, smu_drain, a, outer, flag) ==
    [ThIdle EXCEPT !.pc = "rec_lock", !.op = kind,
                   !.smui = smu_drain, !.smuv = Other(smu_drain),
                   !.args = a, !.outer = outer,
                   !.abortAtCall = flag]

\* a caller invokes current_voltage_sweep_dual_smu directly
CallDual(t, smui, nI, nV, pulsed) ==
    /\ th[t].pc = "idle"
    /\ calls < MaxCalls
    /\ calls' = calls + 1
    /\ th' = [th EXCEPT ![t] =
                [ThIdle EXCEPT !.pc = "sw_lock", !.op = "dual", !.sw = "dual",
                               !.smui = smui, !.smuv = Other(smui),
                               !.nI = nI, !.nV = nV, !.pulsed = pulsed,
                               !.abortAtCall = abort_event]]
    /\ UNCHANGED <<abort_event, lock, hw>>
    /\ UNCHANGED OthersOfInstr

\* a caller invokes current_sweep_single_smu directly (TBIVProcedure.execute)
CallSingle(t, smu, n, pulsed) ==
    /\ th[t].pc = "idle"
    /\ calls < MaxCalls
    /\ calls' = calls + 1
    /\ th' = [th EXCEPT ![t] = SingleFrame(smu, n, pulsed, abort_event)]
    /\ UNCHANGED <<abort_event, lock, hw>>
    /\ UNCHANGED OthersOfInstr

\* a caller invokes a curve recorder
CallRecorder(t, kind, smu_drain, a, outer) ==
    /\ th[t].pc = "idle"
    /\ calls < MaxCalls
    /\ calls' = calls + 1
    /\ th' = [th EXCEPT ![t] = RecorderFrame(kind, smu_drain, a, outer, abort_event)]
    /\ UNCHANGED <<abort_event, lock, hw>>
    /\ UNCHANGED OthersOfInstr

\* a caller invokes a curve recorder without a callback (callback = None, the
\* default of lines 280, 385, 480)
CallRecorderBare(t, kind, smu_drain, a, outer) ==
    /\ th[t].pc = "idle"
    /\ calls < MaxCalls
    /\ calls' = calls + 1
    /\ th' = [th EXCEPT ![t] =
                [RecorderFrame(kind, smu_drain, a, outer, abort_event)
                    EXCEPT !.callback = FALSE]]
    /\ UNCHANGED <<abort_event, lock, hw>>
    /\ UNCHANGED OthersOfInstr

\* abort_event.set() by whoever wants the measurement cancelled
SetAbort ==
    /\ ~abort_event
    /\ abort_event' = TRUE
    /\ th' = [t \in Threads |->
                IF th[t].pc = "idle" THEN th[t]
                ELSE [th[t] EXCEPT !.ab = [at |-> IF th[t].pc = "rec_iter" THEN "iter" ELSE "body",
                                            idx |-> th[t].idx]]]
    /\ UNCHANGED <<lock, hw, calls>>
    /\ UNCHANGED OthersOfInstr

\* where a sweep returns to: its direct caller, or the recorder that called it
\* (touched: whether the call leaves the instrument state as it found it)
AfterSweep(r, ret, h) ==
    IF r.op \in Recorders
    THEN [r EXCEPT !.pc = "rec_post", !.sw = "none", !.ret = ret,
                   !.touched = (h # r.hw0), !.hw0 = HwInit]
    ELSE [r EXCEPT !.pc = "idle", !.sw = "none", !.ret = ret,
                   !.touched = (h # r.hw0), !.hw0 = HwInit,
                   !.outcome = IF ret.kind \in {"ValueError", "TypeError"}
                               THEN "raised" ELSE "returned"]

\* line 66 / 587: with self._measurement_lock
SwEnter(t) ==
    /\ th[t].pc = "sw_lock"
    /\ CanAcquire(t)
    /\ lock' = Acquire(t)
    /\ th' = [th EXCEPT ![t].pc = "sw_check", ![t].hw0 = hw, ![t].obs = <<>>]
    /\ UNCHANGED <<abort_event, hw, calls>>
    /\ UNCHANGED OthersOfInstr

\* lines 68-69: if len(smui_sweeplist) != len(smuv_sweeplist): raise ValueError
LengthsDifferIgnored(kind, nI, nV) == FALSE
LengthsDiffer(kind, nI, nV) == kind = "dual" /\ nI # nV

SwRaise(t) ==
    /\ th[t].pc = "sw_check"
    /\ LengthsDiffer(th[t].sw, th[t].nI, th[t].nV)
    /\ th' = [th EXCEPT ![t] = [AfterSweep(@, RetValueError, hw) EXCEPT
                                    !.abortAtCheck = abort_event]]
    /\ lock' = Release(t)
    /\ UNCHANGED <<abort_event, hw, calls>>
    /\ UNCHANGED OthersOfInstr

\* self.abort_event.is_set() at lines 75 / 593
AbortSeenNever(flag) == FALSE
AbortSeen(flag) == flag

\* lines 73-76 / 591-594: if self.abort_event.is_set(): return the empty lists
SwAbort(t) ==
    /\ th[t].pc = "sw_check"
    /\ ~LengthsDiffer(th[t].sw, th[t].nI, th[t].nV)
    /\ AbortSeen(abort_event)
    /\ th' = [th EXCEPT ![t] = [AfterSweep(@, RetEmpty, hw) EXCEPT !.abortAtCheck = TRUE]]
    /\ lock' = Release(t)
    /\ UNCHANGED <<abort_event, hw, calls>>
    /\ UNCHANGED OthersOfInstr

\* lines 78-188 / 596-677: the channel configuration up to the end-of-sweep
\* action; the TypeError branch of the test of 'pulsed' leaves the call
SwConfigure(t) ==
    /\ th[t].pc = "sw_check"
    /\ ~LengthsDiffer(th[t].sw, th[t].nI, th[t].nV)
    /\ ~AbortSeen(abort_event)
    /\ hw' = IF th[t].sw = "dual"
             THEN DualConfigure(hw, t, th[t].smui, th[t].smuv, th[t].nI, th[t].nV,
                                th[t].pulsed)
             ELSE SingleConfigure(hw, t, th[t].smui, th[t].nI, th[t].pulsed)
    /\ th' = IF PulsedBranch(th[t].pulsed) = "TypeError"
             THEN [th EXCEPT ![t] = [AfterSweep(@, RetTypeError, hw') EXCEPT
                                        !.writes = @ + 1,
                                        !.abortAtCheck = abort_event]]
             ELSE [th EXCEPT ![t].pc = "sw_arm", ![t].writes = @ + 1,
                             ![t].abortAtCheck = abort_event,
                             ![t].gen = hw'.gen]
    /\ lock' = IF PulsedBranch(th[t].pulsed) = "TypeError" THEN Release(t) ELSE lock
    /\ UNCHANGED <<abort_event, calls>>
    /\ UNCHANGED OthersOfInstr

\* lines 190-236 / 679-722: stimuli and blenders, outputs, initiate, send_trigger
SwArm(t) ==
    /\ th[t].pc = "sw_arm"
    /\ hw' = IF th[t].sw = "dual"
             THEN DualArm(hw, t, th[t].smui, th[t].smuv)
             ELSE SingleArm(hw, t, th[t].smui)
    /\ th' = [th EXCEPT ![t].pc = "sw_poll_a", ![t].writes = @ + 1]
    /\ UNCHANGED <<abort_event, lock, calls>>
    /\ UNCHANGED OthersOfInstr

\* lines 246-247 / 732-733: leave the first wait once the status is non-zero
\* (a poll that finds 0 sleeps 100 ms and changes nothing)
SwPollA(t) ==
    /\ th[t].pc = "sw_poll_a"
    /\ SweepBegun(hw)
    /\ th' = [th EXCEPT ![t].pc = "sw_poll_b",
                        ![t].obs = <<SweepingCondition(hw)>>]
    /\ UNCHANGED <<abort_event, lock, hw, calls>>
    /\ UNCHANGED OthersOfInstr

\* the polling loops test the sweeping status only, never abort_event
PollInterruptedByAbort(flag) == flag
PollInterrupted(flag) == FALSE

\* lines 250-251 / 736-737: leave the second wait once the status is 0
SwPollB(t) ==
    /\ th[t].pc = "sw_poll_b"
    /\ SweepEnded(hw) \/ PollInterrupted(abort_event)
    /\ th' = [th EXCEPT ![t].pc = "sw_read",
                        ![t].obs = Append(@, SweepingCondition(hw))]
    /\ UNCHANGED <<abort_event, lock, hw, calls>>
    /\ UNCHANGED OthersOfInstr

\* lines 253-257 / 739-741: i from nvbuffer1, v from nvbuffer2
ReadBuffers(h, kind, smui, smuv) ==
    [kind |-> "vectors",
     v_smui |-> h.buf2[smui], i_smui |-> h.buf1[smui],
     v_smuv |-> IF kind = "dual" THEN h.buf2[smuv] ELSE <<>>,
     i_smuv |-> IF kind = "dual" THEN h.buf1[smuv] ELSE <<>>]

\* lines 253-266 / 739-749: read the buffers, clear them, return
SwRead(t) ==
    /\ th[t].pc = "sw_read"
    /\ hw' = [ClearBuffers(hw, {th[t].smui, th[t].smuv}) EXCEPT !.writer = t]
    /\ th' = [th EXCEPT ![t] =
                [AfterSweep(@, ReadBuffers(hw, th[t].sw, th[t].smui, th[t].smuv), hw')
                    EXCEPT !.writes = @ + 1]]
    /\ lock' = Release(t)
    /\ UNCHANGED <<abort_event, calls>>
    /\ UNCHANGED OthersOfInstr

(***************************************************************************)
(* The curve recorders transfer_measurement_i (lines 309-371),             *)
(* transfer_measurement_v (414-466) and iv_measurement_v (509-559).  The   *)
(* table rt is the sequence of the batches appended; a batch records its   *)
(* outer value (by position in the outer list) and its number of rows.     *)
(***************************************************************************)
\* line 309: with self._measurement_lock
RecEnter(t) ==
    /\ th[t].pc = "rec_lock"
    /\ CanAcquire(t)
    /\ lock' = Acquire(t)
    /\ th' = [th EXCEPT ![t].pc = "rec_init"]
    /\ UNCHANGED <<abort_event, hw, calls>>
    /\ UNCHANGED OthersOfInstr

\* lines 311-327: abort_event.clear(), the axis, the empty table
RecInit(t) ==
    /\ th[t].pc = "rec_init"
    /\ ~AxisFails(th[t].args[1], th[t].args[2], th[t].args[3])
    /\ abort_event' = FALSE
    /\ th' = [th EXCEPT ![t].pc = "rec_iter", ![t].idx = 1, ![t].table = <<>>,
                        ![t].axisN = Len(RecorderAxis(th[t].op, th[t].args)),
                        ![t].ab = AbNone]
    /\ UNCHANGED <<lock, hw, calls>>
    /\ UNCHANGED OthersOfInstr

\* lines 311-318: abort_event.clear(), then np.arange raises; the with
\* statement releases the lock as the exception leaves it
RecInitRaises(t) ==
    /\ th[t].pc = "rec_init"
    /\ AxisFails(th[t].args[1], th[t].args[2], th[t].args[3])
    /\ abort_event' = FALSE
    /\ th' = [th EXCEPT ![t].pc = "idle", ![t].outcome = "raised", ![t].ab = AbNone]
    /\ lock' = Release(t)
    /\ UNCHANGED <<hw, calls>>
    /\ UNCHANGED OthersOfInstr

\* the table returned at an abort (line 337: return rt)
AbortTableEmpty(rt) == <<>>
AbortTable(rt) == rt

\* lines 333-337: abort seen at the start of an iteration
RecAbort(t) ==
    /\ th[t].pc = "rec_iter"
    /\ th[t].idx <= th[t].outer
    /\ abort_event
    /\ hw' = [Reset(hw) EXCEPT !.writer = t]
    /\ th' = [th EXCEPT ![t].pc = "idle", ![t].outcome = "aborted",
                        ![t].table = AbortTable(@),
                        ![t].resets = @ + 1, ![t].beeps = @ + 1]
    /\ lock' = Release(t)
    /\ UNCHANGED <<abort_event, calls>>
    /\ UNCHANGED OthersOfInstr

\* lines 339-351: the constant list of the outer value, the call of the sweep
RecSweep(t) ==
    /\ th[t].pc = "rec_iter"
    /\ th[t].idx <= th[t].outer
    /\ ~abort_event
    /\ th' = [th EXCEPT ![t].pc = "sw_lock", ![t].sw = "dual",
                        ![t].nI = th[t].axisN, ![t].nV = th[t].axisN]
    /\ UNCHANGED <<abort_event, lock, hw, calls>>
    /\ UNCHANGED OthersOfInstr

\* rt = pd.concat([rt, _df]): one batch of len(primary axis) rows
AppendBatchNone(rt, idx, n) == rt
AppendBatch(rt, idx, n) == Append(rt, [outer |-> idx, rows |-> n])

\* lines 366-367: if callback is not None: callback(idrain, _df)
\* (cbs counts the invocations, cbArgs lists their arguments)
InvokeCallback(r, idx, n) ==
    IF r.callback
    THEN [r EXCEPT !.cbs = @ + 1, !.cbArgs = Append(@, [outer |-> idx, rows |-> n])]
    ELSE r

\* lines 353-367: abort not set after the sweep: append the batch, callback
RecPostAppend(t) ==
    /\ th[t].pc = "rec_post"
    /\ ~abort_event
    /\ th' = [th EXCEPT ![t] =
                [InvokeCallback(@, th[t].idx, th[t].axisN) EXCEPT
                    !.pc = "rec_iter",
                    !.table = AppendBatch(@, th[t].idx, th[t].axisN),
                    !.idx = @ + 1]]
    /\ UNCHANGED <<abort_event, lock, hw, calls>>
    /\ UNCHANGED OthersOfInstr

\* line 353: abort set after the sweep: nothing appended, next iteration
RecPostSkip(t) ==
    /\ th[t].pc = "rec_post"
    /\ abort_event
    /\ th' = [th EXCEPT ![t].pc = "rec_iter", ![t].idx = @ + 1]
    /\ UNCHANGED <<abort_event, lock, hw, calls>>
    /\ UNCHANGED OthersOfInstr

\* lines 369-371: the outer list is exhausted: reset, return rt
RecFinish(t) ==
    /\ th[t].pc = "rec_iter"
    /\ th[t].idx > th[t].outer
    /\ hw' = [Reset(hw) EXCEPT !.writer = t]
    /\ th' = [th EXCEPT ![t].pc = "idle", ![t].outcome = "returned",
                        ![t].resets = @ + 1]
    /\ lock' = Release(t)
    /\ UNCHANGED <<abort_event, calls>>
    /\ UNCHANGED OthersOfInstr

(***************************************************************************)
(* The trigger layer of the two channels during one dual sweep, driven by  *)
(* the stimuli current_voltage_sweep_dual_smu programs (lines 145-236).    *)
(* Per trigger cycle a channel sources the next list value, measures, and  *)
(* ends the pulse; each of the three stages waits for the event programmed *)
(* as its stimulus.  A stage whose stimulus the code leaves unprogrammed    *)
(* (NoEvent) is held back by nothing.  src, meas, pulse count the          *)
(* SOURCE_COMPLETE, MEASURE_COMPLETE and PULSE_COMPLETE events of a        *)
(* channel, armed its ARMED event.                                         *)
(***************************************************************************)
Min(a, b) == IF a <= b THEN a ELSE b

TrigIdle ==
    [pc |-> "off", kind |-> "dual", smui |-> "smua", n |-> 0, pulsed |-> "False",
     raised |-> FALSE, ep0 |-> HwInit.endpulse_action,
     phase |-> [c \in Channels |-> "off"],
     armed |-> [c \in Channels |-> 0],
     src |-> [c \in Channels |-> 0],
     meas |-> [c \in Channels |-> 0],
     pulse |-> [c \in Channels |-> 0],
     resrc |-> FALSE]

\* the instrument as current_sweep_single_smu on channel c leaves it: stimuli
\* and blenders still programmed (lines 684-710), output on, buffers cleared
AfterSingle(c) ==
    [SingleArm(SingleConfigure(HwInit, "t1", c, 1, "False"), "t1", c) EXCEPT
        !.chan[c] = "idle", !.k[c] = 1, !.trg = FALSE]

\* what the instrument may hold when a dual sweep is programmed: the defaults
\* (after self.reset()) or the leftovers of a single-channel sweep
PriorStates == {HwInit} \cup {AfterSingle(c) : c \in Channels}

\* occurrences so far of an event of a channel or of the global trigger
BaseCount(h, tr, e) ==
    IF e = GlobalTrg THEN (IF h.trg THEN 1 ELSE 0)
    ELSE IF e.smu \notin Channels THEN 0
    ELSE IF e.ev = "ARMED" THEN tr.armed[e.smu]
    ELSE IF e.ev = "SOURCE_COMPLETE" THEN tr.src[e.smu]
    ELSE IF e.ev = "MEASURE_COMPLETE" THEN tr.meas[e.smu]
    ELSE IF e.ev = "PULSE_COMPLETE" THEN tr.pulse[e.smu]
    ELSE 0

\* occurrences of a blender's event: orenable = True fires on either stimulus,
\* orenable = False only once both stimuli have occurred
BlenderCount(h, tr, n) ==
    IF h.blender[n].orenable
    THEN BaseCount(h, tr, h.blender[n].s1) + BaseCount(h, tr, h.blender[n].s2)
    ELSE Min(BaseCount(h, tr, h.blender[n].s1), BaseCount(h, tr, h.blender[n].s2))

\* the j-th wait on a stimulus is over
StimulusMet(h, tr, stim, j) ==
    IF stim = NoEvent THEN TRUE
    ELSE IF stim = BlenderEvent(1) THEN BlenderCount(h, tr, 1) >= j
    ELSE IF stim = BlenderEvent(2) THEN BlenderCount(h, tr, 2) >= j
    ELSE BaseCount(h, tr, stim) >= j

OthersOfTrig ==
    <<ax, instances, nextId, requests, stab, abort_event, lock, th, calls, proc, seq>>

InitTrig ==
    \E h \in PriorStates, c \in Channels, n \in 1..MaxLen, p \in PyBool :
        /\ hw = h
        /\ trig = [TrigIdle EXCEPT !.pc = "args", !.smui = c, !.n = n, !.pulsed = p]

\* a sweep call with any value as its 'pulsed' argument
InitPulsed ==
    \E h \in PriorStates, kind \in {"dual", "single"}, c \in Channels,
       n \in 1..MaxLen, p \in PulsedValues :
        /\ hw = h
        /\ trig = [TrigIdle EXCEPT !.pc = "args", !.kind = kind, !.smui = c, !.n = n,
                                   !.pulsed = p]

\* lines 78-188 / 596-677 for that call: the configuration up to the test of
\* 'pulsed' and the end-of-pulse and end-of-sweep actions it selects (ep0: the
\* end-of-pulse actions the instrument held before the call)
PulsedConfigure ==
    /\ trig.pc = "args"
    /\ hw' = IF trig.kind = "dual"
             THEN DualConfigure(hw, "t1", trig.smui, Other(trig.smui), trig.n, trig.n,
                                trig.pulsed)
             ELSE SingleConfigure(hw, "t1", trig.smui, trig.n, trig.pulsed)
    /\ trig' = [trig EXCEPT !.pc = "configured",
                            !.ep0 = hw.endpulse_action,
                            !.raised = (PulsedBranch(trig.pulsed) = "TypeError")]
    /\ UNCHANGED OthersOfTrig

\* lines 78-236: the whole configuration, initiate() of both channels and
\* send_trigger()
TrigProgram ==
    /\ trig.pc = "args"
    /\ hw' = DualArm(DualConfigure(hw, "t1", trig.smui, Other(trig.smui),
                                   trig.n, trig.n, trig.pulsed),
                     "t1", trig.smui, Other(trig.smui))
    /\ trig' = [trig EXCEPT !.pc = "run",
                            !.phase = [c \in Channels |-> "arm_wait"]]
    /\ UNCHANGED OthersOfTrig

\* an initiated channel leaves the arm layer on its arm stimulus (line 195)
TrigArmed(c) ==
    /\ trig.pc = "run"
    /\ trig.phase[c] = "arm_wait"
    /\ StimulusMet(hw, trig, hw.arm_stim[c], 1)
    /\ trig' = [trig EXCEPT !.phase[c] = "src_wait", !.armed[c] = 1]
    /\ hw' = [hw EXCEPT !.chan[c] = "sweeping"]
    /\ UNCHANGED OthersOfTrig

\* the channel sources its next list value on its source stimulus (line 212);
\* resrc records a source step after the first one taken while the other
\* channel was measuring
TrigSourceStep(c) ==
    /\ trig.pc = "run"
    /\ trig.phase[c] = "src_wait"
    /\ StimulusMet(hw, trig, hw.src_stim[c], trig.src[c] + 1)
    /\ trig' = [trig EXCEPT !.phase[c] = "meas_wait", !.src[c] = @ + 1,
                            !.resrc = @ \/ (trig.src[c] >= 1
                                             /\ trig.phase[Other(c)] = "measuring")]
    /\ UNCHANGED hw
    /\ UNCHANGED OthersOfTrig

\* the channel starts its measurement on its measure stimulus (lines 171-172)
TrigMeasureBegin(c) ==
    /\ trig.pc = "run"
    /\ trig.phase[c] = "meas_wait"
    /\ StimulusMet(hw, trig, hw.meas_stim[c], trig.meas[c] + 1)
    /\ trig' = [trig EXCEPT !.phase[c] = "measuring"]
    /\ UNCHANGED hw
    /\ UNCHANGED OthersOfTrig

\* the measurement completes: one reading into nvbuffer1 and nvbuffer2
\* (lines 167-168)
TrigMeasureEnd(c) ==
    /\ trig.pc = "run"
    /\ trig.phase[c] = "measuring"
    /\ trig' = [trig EXCEPT !.phase[c] = "ep_wait", !.meas[c] = @ + 1]
    /\ hw' = [hw EXCEPT !.buf1[c] = Append(@, hw.gen), !.buf2[c] = Append(@, hw.gen),
                        !.k[c] = @ + 1]
    /\ UNCHANGED OthersOfTrig

\* the pulse ends on the end-of-pulse stimulus (line 224); after trigger.count
\* cycles the channel is idle
TrigEndPulse(c) ==
    /\ trig.pc = "run"
    /\ trig.phase[c] = "ep_wait"
    /\ StimulusMet(hw, trig, hw.endpulse_stim[c], trig.pulse[c] + 1)
    /\ trig' = [trig EXCEPT !.pulse[c] = @ + 1,
                            !.phase[c] = IF trig.pulse[c] + 1 >= hw.count[c]
                                         THEN "done" ELSE "src_wait"]
    /\ hw' = [hw EXCEPT !.chan[c] = IF trig.pulse[c] + 1 >= hw.count[c]
                                    THEN "idle" ELSE @]
    /\ UNCHANGED OthersOfTrig

(***************************************************************************)
(* Specifications.                                                         *)
(***************************************************************************)
\* the inputs of the recorders' axis tried on the instrument: start 0, step 1
RecArgs == {<<0, s, 1>> : s \in 0..MaxRecStop}

(***************************************************************************)
(* One sweep call statement by statement, from the first hardware write    *)
(* (line 82 / 598) to the return: the statements of                        *)
(* current_voltage_sweep_dual_smu and current_sweep_single_smu in program  *)
(* order, each applied to the instrument as one step.  seq.log lists the   *)
(* statements executed in the current call.  The measurement settings the  *)
(* trigger model does not depend on (source function, high-capacitance     *)
(* mode, autorange) are kept in seq.                                       *)
(***************************************************************************)
\* a statement on a channel, and a statement on blender n
Wr(op, smu, val) == [op |-> op, smu |-> smu, n |-> 0, val |-> val, ev |-> NoEvent]
Bl(op, n, val, ev) == [op |-> op, smu |-> "none", n |-> n, val |-> val, ev |-> ev]

\* current_voltage_sweep_dual_smu, lines 82-236
DualProgram(smui, smuv) ==
    << Wr("source.listi", smui, ""), Wr("source.listv", smuv, ""),
       Wr("source.action", smui, "ENABLE"), Wr("source.action", smuv, "ENABLE"),
       Wr("nplc", smui, ""), Wr("nplc", smuv, ""),
       Wr("measure.delay", smui, ""), Wr("measure.delay", smuv, ""),
       Wr("measure.autorangev", smui, "AUTORANGE_ON"),
       Wr("measure.autorangei", smuv, "AUTORANGE_ON"),
       Wr("source.func", smui, "OUTPUT_DCAMPS"), Wr("source.func", smuv, "OUTPUT_DCVOLTS"),
       Wr("nvbuffer.clear", smui, ""), Wr("nvbuffer.clear", smuv, ""),
       Wr("display.measure.func", smui, "MEASURE_DCVOLTS"),
       Wr("display.measure.func", smuv, "MEASURE_DCAMPS"),
       Wr("trigger.count", smui, ""), Wr("trigger.count", smuv, ""),
       Wr("measure.action", smui, "ENABLE"), Wr("measure.action", smuv, "ENABLE"),
       Wr("measure.iv", smui, ""), Wr("measure.iv", smuv, ""),
       Wr("measure.stimulus", smui, ""), Wr("measure.stimulus", smuv, ""),
       Wr("endpulse.action", smui, ""), Wr("endpulse.action", smuv, ""),
       Wr("endsweep.action", smui, ""), Wr("endsweep.action", smuv, ""),
       Wr("arm.stimulus", smui, ""),
       Bl("blender.orenable", 1, "True", NoEvent),
       Bl("blender.stimulus1", 1, "", Event(smui, "ARMED")),
       Bl("blender.stimulus2", 1, "", Event(smui, "PULSE_COMPLETE")),
       Wr("source.stimulus", smui, ""),
       Bl("blender.orenable", 2, "False", NoEvent),
       Bl("blender.stimulus1", 2, "", Event(smui, "MEASURE_COMPLETE")),
       Bl("blender.stimulus2", 2, "", Event(smuv, "MEASURE_COMPLETE")),
       Wr("endpulse.stimulus", smui, ""),
       Wr("source.output", smui, "OUTPUT_ON"), Wr("source.output", smuv, "OUTPUT_ON"),
       Wr("initiate", smui, ""), Wr("initiate", smuv, ""),
       Wr("send_trigger", "none", "") >>

\* current_sweep_single_smu, lines 598-722
SingleProgram(smu) ==
    << Wr("source.listi", smu, ""),
       Wr("source.action", smu, "ENABLE"),
       Wr("nplc", smu, ""),
       Wr("measure.delay", smu, ""),
       Wr("measure.autorangei", smu, "AUTORANGE_ON"),
       Wr("source.func", smu, "OUTPUT_DCAMPS"),
       Wr("nvbuffer.clear", smu, ""),
       Wr("display.measure.func", smu, "MEASURE_DCVOLTS"),
       Wr("trigger.count", smu, ""),
       Wr("measure.action", smu, "ENABLE"),
       Wr("measure.iv", smu, ""),
       Wr("measure.stimulus", smu, ""),
       Wr("endpulse.action", smu, ""),
       Wr("endsweep.action", smu, ""),
       Wr("arm.stimulus", smu, ""),
       Bl("blender.orenable", 1, "True", NoEvent),
       Bl("blender.stimulus1", 1, "", Event(smu, "ARMED")),
       Bl("blender.stimulus2", 1, "", Event(smu, "PULSE_COMPLETE")),
       Wr("source.stimulus", smu, ""),
       Bl("blender.orenable", 2, "True", NoEvent),
       Bl("blender.stimulus1", 2, "", Event(smu, "MEASURE_COMPLETE")),
       Wr("endpulse.stimulus", smu, ""),
       Wr("source.output", smu, "OUTPUT_ON"),
       Wr("initiate", smu, ""),
       Wr("send_trigger", "none", "") >>

\* the statements guarded by "if smu.source.highc == smu.DISABLE"
\* (lines 112-115, 616-617)
AutorangeOps == {"measure.autorangev", "measure.autorangei"}

\* the effect of one statement on the trigger model, buffers and outputs
\* (s: the call, for the list length, the current-source channel and 'pulsed')
ApplyWrite(h, w, s) ==
    CASE w.op \in {"source.listi", "source.listv"} ->
            [h EXCEPT !.listn[w.smu] = s.n]
      [] w.op = "nvbuffer.clear" -> ClearBuffers(h, {w.smu})
      [] w.op = "trigger.count" -> [h EXCEPT !.count[w.smu] = TriggerCount(s.n)]
      [] w.op = "measure.stimulus" ->
            [h EXCEPT !.meas_stim[w.smu] = MeasureStimulus(s.smui, w.smu)]
      [] w.op = "endpulse.action" ->
            [h EXCEPT !.endpulse_action[w.smu] = EndPulseAction(s.pulsed)]
      [] w.op = "endsweep.action" ->
            [h EXCEPT !.endsweep_action[w.smu] = EndPulseAction(s.pulsed)]
      [] w.op = "arm.stimulus" -> [h EXCEPT !.arm_stim[w.smu] = GlobalTrg]
      [] w.op = "blender.orenable" -> [h EXCEPT !.blender[w.n].orenable = (w.val = "True")]
      [] w.op = "blender.stimulus1" -> [h EXCEPT !.blender[w.n].s1 = w.ev]
      [] w.op = "blender.stimulus2" -> [h EXCEPT !.blender[w.n].s2 = w.ev]
      [] w.op = "source.stimulus" -> [h EXCEPT !.src_stim[w.smu] = BlenderEvent(1)]
      [] w.op = "endpulse.stimulus" -> [h EXCEPT !.endpulse_stim[w.smu] = BlenderEvent(2)]
      [] w.op = "source.output" -> [h EXCEPT !.output[w.smu] = TRUE]
      [] w.op = "initiate" -> [h EXCEPT !.chan[w.smu] = "initiated", !.k[w.smu] = 0]
      [] w.op = "send_trigger" -> [h EXCEPT !.trg = TRUE]
      [] OTHER -> h

SeqIdle ==
    [phase |-> "off", pc |-> 0, kind |-> "dual", smui |-> "smua", smuv |-> "smub",
     n |-> 0, pulsed |-> "False", calls |-> 0, log |-> <<>>, hw0 |-> HwInit,
     highc |-> [c \in Channels |-> FALSE],
     autorangev |-> [c \in Channels |-> FALSE],
     autorangei |-> [c \in Channels |-> FALSE],
     arv0 |-> [c \in Channels |-> FALSE],
     ari0 |-> [c \in Channels |-> FALSE],
     func |-> [c \in Channels |-> "none"],
     ret |-> RetNone]

OthersOfSeq ==
    <<ax, instances, nextId, requests, stab, abort_event, lock, th, calls, trig, proc>>

\* the instrument before the first call: high-capacitance mode of each channel
\* on or off, autorange on or off
InitSeq ==
    \E hc \in [Channels -> BOOLEAN], a \in BOOLEAN :
        seq = [SeqIdle EXCEPT !.phase = "idle", !.highc = hc,
                              !.autorangev = [c \in Channels |-> a],
                              !.autorangei = [c \in Channels |-> a]]

\* the statements of the call s, in program order
ProgramTriggerTwice(s) == DualProgram(s.smui, s.smuv) \o <<Wr("send_trigger", "none", "")>>
Program(s) == IF s.kind = "dual" THEN DualProgram(s.smui, s.smuv) ELSE SingleProgram(s.smui)

\* a sweep call has passed its entry checks (line 78 / 596)
SeqCall(kind, smui, n, pulsed) ==
    /\ seq.phase = "idle"
    /\ seq.calls < MaxCalls
    /\ seq' = [seq EXCEPT !.phase = "config", !.pc = 1, !.kind = kind, !.smui = smui,
                          !.smuv = IF kind = "dual" THEN Other(smui) ELSE smui,
                          !.n = n, !.pulsed = pulsed, !.calls = @ + 1, !.log = <<>>,
                          !.hw0 = hw, !.arv0 = seq.autorangev, !.ari0 = seq.autorangei,
                          !.ret = RetNone]
    /\ hw' = [hw EXCEPT !.gen = @ + 1, !.writer = "t1"]
    /\ UNCHANGED OthersOfSeq

\* the next statement of the call
SeqWrite ==
    /\ seq.phase = "config"
    /\ LET w == Program(seq)[seq.pc]
           skipped == w.op \in AutorangeOps /\ seq.highc[w.smu]
       IN /\ hw' = IF skipped THEN hw ELSE ApplyWrite(hw, w, seq)
          /\ seq' = [seq EXCEPT
                !.pc = @ + 1,
                !.phase = IF seq.pc = Len(Program(seq)) THEN "poll_a" ELSE @,
                !.log = IF skipped THEN @ ELSE Append(@, w),
                !.autorangev = IF ~skipped /\ w.op = "measure.autorangev"
                               THEN [@ EXCEPT ![w.smu] = TRUE] ELSE @,
                !.autorangei = IF ~skipped /\ w.op = "measure.autorangei"
                               THEN [@ EXCEPT ![w.smu] = TRUE] ELSE @,
                !.func = IF w.op = "source.func" THEN [@ EXCEPT ![w.smu] = w.val] ELSE @]
    /\ UNCHANGED OthersOfSeq

\* lines 246-247 / 732-733
SeqPollA ==
    /\ seq.phase = "poll_a"
    /\ SweepBegun(hw)
    /\ seq' = [seq EXCEPT !.phase = "poll_b"]
    /\ UNCHANGED hw
    /\ UNCHANGED OthersOfSeq

\* lines 250-251 / 736-737
SeqPollB ==
    /\ seq.phase = "poll_b"
    /\ SweepEnded(hw)
    /\ seq' = [seq EXCEPT !.phase = "read"]
    /\ UNCHANGED hw
    /\ UNCHANGED OthersOfSeq

\* lines 253-266 / 739-749: read the buffers, clear them, return
SeqRead ==
    /\ seq.phase = "read"
    /\ hw' = ClearBuffers(hw, {seq.smui, seq.smuv})
    /\ seq' = [seq EXCEPT !.phase = "idle",
                          !.ret = ReadBuffers(hw, seq.kind, seq.smui, seq.smuv),
                          !.log = @ \o <<Wr("read_buffer", "none", ""),
                                         Wr("nvbuffer.clear", "none", "")>>]
    /\ UNCHANGED OthersOfSeq

(***************************************************************************)
(* One run of a procedure: TBGProcedure.execute (procedures.py lines       *)
(* 190-242) and TBIVProcedure.execute (lines 265-312).  The stop flag of   *)
(* the run (should_stop()) is stab.stop; the frame of stabilize_TB is      *)
(* dropped when it returns.                                                *)
(***************************************************************************)
ProcIdle ==
    [pc |-> "off", kind |-> "TBG", t_active |-> FALSE, m_active |-> FALSE,
     args |-> <<0, 0, 0>>, n |-> 0,
     stab_calls |-> 0, stab_result |-> "none", stop_at_check |-> FALSE,
     sweep_calls |-> 0, rows |-> 0, emitted |-> 0, outcome |-> "none",
     stop_inside |-> FALSE]

\* the parameters of a run: the gate axis of a TBG run, the number of drain
\* currents of a TBIV run
ProcInputs ==
    {[kind |-> "TBG", args |-> a, n |-> 0] : a \in RecArgs}
        \cup {[kind |-> "TBIV", args |-> <<0, 0, 0>>, n |-> n] : n \in 1..MaxLen}

OthersOfProc == <<ax, instances, nextId, requests, trig, seq>>

InitProc ==
    \E i \in ProcInputs, ta \in BOOLEAN, ma \in BOOLEAN, s \in BOOLEAN :
        /\ proc = [ProcIdle EXCEPT !.pc = "start", !.kind = i.kind, !.args = i.args,
                                   !.n = i.n, !.t_active = ta, !.m_active = ma]
        /\ stab = [StabIdle EXCEPT !.stop = s]

\* lines 193 / 268: execute() calls self.stabilize_TB() (the post-settle delays
\* are those of settings.py lines 10-11)
ProcExecute ==
    /\ proc.pc = "start"
    /\ proc' = [proc EXCEPT !.pc = "stabilizing", !.stab_calls = @ + 1]
    /\ stab' = [StabIdle EXCEPT !.pc = "entry", !.t_active = proc.t_active,
                                !.m_active = proc.m_active,
                                !.wait_T = 10, !.wait_M = 10, !.stop = stab.stop,
                                !.connected = StartupConnected(proc.t_active,
                                                               proc.m_active)]
    /\ UNCHANGED <<abort_event, lock, th, hw, calls>>
    /\ UNCHANGED OthersOfProc

\* the caller r is in a recorder, past its abort_event.clear() and not yet
\* returned
PastRecInit(r) ==
    /\ r.op \in Recorders
    /\ r.pc \in (InRecorder \cup InSweep \cup {"sw_lock"}) \ {"rec_init"}

\* the worker's stop request while the run is outside stabilize_TB: the flag
\* should_stop() reads is set; nothing in the procedures sets abort_event
\* (stop_inside: the request came while the recorder was running)
ProcSetStop ==
    /\ proc.pc \in {"start", "check", "measuring", "emit"}
    /\ stab.pc = "off"
    /\ ~stab.stop
    /\ stab' = [stab EXCEPT !.stop = TRUE]
    /\ proc' = [proc EXCEPT !.stop_inside = (proc.pc = "measuring"
                                             /\ PastRecInit(th["t1"]))]
    /\ UNCHANGED <<abort_event, lock, th, hw, calls>>
    /\ UNCHANGED OthersOfProc

\* lines 193-194 / 268-269: stabilize_TB has returned; "if ...: return"
ProcStabReturned ==
    /\ proc.pc = "stabilizing"
    /\ stab.pc = "done"
    /\ proc' = [proc EXCEPT !.stab_result = stab.result,
                            !.pc = IF stab.result = "stopped" THEN "done" ELSE "check",
                            !.outcome = IF stab.result = "stopped" THEN "stopped" ELSE @]
    /\ stab' = [StabIdle EXCEPT !.stop = stab.stop]
    /\ UNCHANGED <<abort_event, lock, th, hw, calls>>
    /\ UNCHANGED OthersOfProc

\* lines 196 / 271: if self.should_stop()
StopAtCheckIgnored(flag) == FALSE
StopAtCheck(flag) == flag

\* lines 196-198 / 271-273: the stop flag is set at the check: return
ProcCheckStopped ==
    /\ proc.pc = "check"
    /\ StopAtCheck(stab.stop)
    /\ proc' = [proc EXCEPT !.pc = "done", !.outcome = "stopped",
                            !.stop_at_check = stab.stop]
    /\ UNCHANGED <<stab, abort_event, lock, th, hw, calls>>
    /\ UNCHANGED OthersOfProc

\* lines 200-219 / 275-294: the instrument call: transfer_measurement_i with
\* id_list = [drain_current_SP] and the drain on channel B (settings.py line 5),
\* or current_sweep_single_smu on the drain channel, pulsed = False
ProcCallMeasure ==
    /\ proc.pc = "check"
    /\ ~StopAtCheck(stab.stop)
    /\ th["t1"].pc = "idle"
    /\ calls < MaxCalls
    /\ calls' = calls + 1
    /\ th' = [th EXCEPT !["t1"] =
                IF proc.kind = "TBG"
                THEN [RecorderFrame("transfer_i", "smub", proc.args, 1, abort_event)
                        EXCEPT !.callback = FALSE]
                ELSE SingleFrame("smub", proc.n, "False", abort_event)]
    /\ proc' = [proc EXCEPT !.pc = "measuring", !.sweep_calls = @ + 1,
                            !.stop_at_check = stab.stop]
    /\ UNCHANGED <<stab, abort_event, lock, hw>>
    /\ UNCHANGED OthersOfProc

\* the number of rows of a recorder's table
RECURSIVE TableRows(_)
TableRows(rt) == IF rt = <<>> THEN 0 ELSE Head(rt).rows + TableRows(Tail(rt))

\* lines 220-224: the recorder has returned its table, or raised;
\* lines 296-298: the single sweep has returned and the name enum, which
\* nothing defines, raises NameError before any row is emitted
ProcMeasureReturned ==
    /\ proc.pc = "measuring"
    /\ th["t1"].pc = "idle"
    /\ proc' = IF proc.kind = "TBG" /\ th["t1"].outcome # "raised"
               THEN [proc EXCEPT !.pc = "emit", !.rows = TableRows(th["t1"].table)]
               ELSE [proc EXCEPT !.pc = "done", !.outcome = "raised"]
    /\ UNCHANGED <<stab, abort_event, lock, th, hw, calls>>
    /\ UNCHANGED OthersOfProc

\* lines 224-242: self.emit('results', data) for the next row
ProcEmit ==
    /\ proc.pc = "emit"
    /\ proc.emitted < proc.rows
    /\ proc' = [proc EXCEPT !.emitted = @ + 1]
    /\ UNCHANGED <<stab, abort_event, lock, th, hw, calls>>
    /\ UNCHANGED OthersOfProc

\* the rows are exhausted: execute() returns
ProcFinish ==
    /\ proc.pc = "emit"
    /\ proc.emitted = proc.rows
    /\ proc' = [proc EXCEPT !.pc = "done", !.outcome = "finished"]
    /\ UNCHANGED <<stab, abort_event, lock, th, hw, calls>>
    /\ UNCHANGED OthersOfProc

Init ==
    /\ ax = AxIdle
    /\ FactoryIdle
    /\ stab = StabIdle
    /\ InstrIdle
    /\ trig = TrigIdle
    /\ proc = ProcIdle
    /\ seq = SeqIdle

\* the steps of the code once a call is made, and of the instrument
Steps ==
    \/ SetAbort
    \/ \E t \in Threads : SwEnter(t)
    \/ \E t \in Threads : SwRaise(t)
    \/ \E t \in Threads : SwAbort(t)
    \/ \E t \in Threads : SwConfigure(t)
    \/ \E t \in Threads : SwArm(t)
    \/ \E t \in Threads : SwPollA(t)
    \/ \E t \in Threads : SwPollB(t)
    \/ \E t \in Threads : SwRead(t)
    \/ \E t \in Threads : RecEnter(t)
    \/ \E t \in Threads : RecInit(t)
    \/ \E t \in Threads : RecInitRaises(t)
    \/ \E t \in Threads : RecAbort(t)
    \/ \E t \in Threads : RecSweep(t)
    \/ \E t \in Threads : RecPostAppend(t)
    \/ \E t \in Threads : RecPostSkip(t)
    \/ \E t \in Threads : RecFinish(t)
    \/ InstrBegin
    \/ InstrStep
    \/ InstrEnd

\* one caller making a sequence of calls with any of the bounded arguments
Next ==
    \/ \E c \in Channels, nI \in 1..MaxLen, nV \in 1..MaxLen, p \in PyBool :
          CallDual("t1", c, nI, nV, p)
    \/ \E c \in Channels, n \in 1..MaxLen, p \in PyBool : CallSingle("t1", c, n, p)
    \/ \E kind \in Recorders, c \in Channels, a \in RecArgs, o \in 1..MaxOuter :
          CallRecorder("t1", kind, c, a, o)
    \/ Steps

Spec == Init /\ [][Next]_vars

\* two concurrent callers on one instrument instance, each call with lists of
\* one point (the recorders: one outer value, axis from 0 to 0 or 1)
NextConc ==
    \/ \E t \in Threads, nV \in 1..2 : CallDual(t, "smub", 1, nV, "False")
    \/ \E t \in Threads : CallSingle(t, "smub", 1, "False")
    \/ \E t \in Threads, kind \in Recorders, stop \in 0..1 :
          CallRecorder(t, kind, "smub", <<0, stop, 1>>, 1)
    \/ Steps

SpecConc == Init /\ [][NextConc]_vars

\* one caller running curve recorders, with and without a callback
NextRec ==
    \/ \E kind \in Recorders, c \in Channels, a \in RecArgs, o \in 1..MaxOuter :
          CallRecorder("t1", kind, c, a, o)
    \/ \E kind \in Recorders, c \in Channels, a \in RecArgs, o \in 1..MaxOuter :
          CallRecorderBare("t1", kind, c, a, o)
    \/ SetAbort
    \/ \E t \in Threads : SwEnter(t)
    \/ \E t \in Threads : SwAbort(t)
    \/ \E t \in Threads : SwConfigure(t)
    \/ \E t \in Threads : SwArm(t)
    \/ \E t \in Threads : SwPollA(t)
    \/ \E t \in Threads : SwPollB(t)
    \/ \E t \in Threads : SwRead(t)
    \/ \E t \in Threads : RecEnter(t)
    \/ \E t \in Threads : RecInit(t)
    \/ \E t \in Threads : RecInitRaises(t)
    \/ \E t \in Threads : RecAbort(t)
    \/ \E t \in Threads : RecSweep(t)
    \/ \E t \in Threads : RecPostAppend(t)
    \/ \E t \in Threads : RecPostSkip(t)
    \/ \E t \in Threads : RecFinish(t)
    \/ InstrBegin
    \/ InstrStep
    \/ InstrEnd

SpecRec == Init /\ [][NextRec]_vars

\* sweep calls statement by statement, for either setting of each channel's
\* high-capacitance mode
InitSeqOnly ==
    /\ ax = AxIdle
    /\ FactoryIdle
    /\ stab = StabIdle
    /\ InstrIdle
    /\ trig = TrigIdle
    /\ proc = ProcIdle
    /\ InitSeq

NextSeq ==
    \/ \E kind \in {"dual", "single"}, c \in Channels : SeqCall(kind, c, MaxLen, "False")
    \/ SeqWrite
    \/ SeqPollA
    \/ SeqPollB
    \/ SeqRead
    \/ InstrBegin
    \/ InstrStep
    \/ InstrEnd

SpecSeq == InitSeqOnly /\ [][NextSeq]_vars

\* axis construction alone, over all bounded start, stop, step
InitAxisOnly ==
    /\ InitAxis
    /\ FactoryIdle
    /\ stab = StabIdle
    /\ InstrIdle
    /\ trig = TrigIdle
    /\ proc = ProcIdle
    /\ seq = SeqIdle

NextAxis ==
    \/ BuildAxis
    \/ BuildAxisRaises

SpecAxis == InitAxisOnly /\ [][NextAxis]_vars

\* the factory alone
NextFactory ==
    \/ \E a \in Addresses : FactoryReturnExisting(a)
    \/ \E a \in Addresses : FactoryCreate(a)

SpecFactory == Init /\ [][NextFactory]_vars

\* stabilize_TB alone
InitStabOnly ==
    /\ ax = AxIdle
    /\ FactoryIdle
    /\ InitStab
    /\ InstrIdle
    /\ trig = TrigIdle
    /\ proc = ProcIdle
    /\ seq = SeqIdle

NextStab ==
    \/ StabSetStop
    \/ StabEntry
    \/ StabLoopStopped
    \/ StabPoll
    \/ StabPostStopped
    \/ StabProceed

SpecStab == InitStabOnly /\ [][NextStab]_vars

\* the trigger layer of one dual sweep alone
InitTrigOnly ==
    /\ ax = AxIdle
    /\ FactoryIdle
    /\ stab = StabIdle
    /\ abort_event = FALSE
    /\ lock = LockFree
    /\ th = [t \in Threads |-> ThIdle]
    /\ calls = 0
    /\ InitTrig
    /\ proc = ProcIdle
    /\ seq = SeqIdle

NextTrig ==
    \/ TrigProgram
    \/ \E c \in Channels : TrigArmed(c)
    \/ \E c \in Channels : TrigSourceStep(c)
    \/ \E c \in Channels : TrigMeasureBegin(c)
    \/ \E c \in Channels : TrigMeasureEnd(c)
    \/ \E c \in Channels : TrigEndPulse(c)

SpecTrig == InitTrigOnly /\ [][NextTrig]_vars

\* the choice of the end-of-pulse action alone, over all values of 'pulsed'
InitPulsedOnly ==
    /\ ax = AxIdle
    /\ FactoryIdle
    /\ stab = StabIdle
    /\ abort_event = FALSE
    /\ lock = LockFree
    /\ th = [t \in Threads |-> ThIdle]
    /\ calls = 0
    /\ InitPulsed
    /\ proc = ProcIdle
    /\ seq = SeqIdle

NextPulsed == PulsedConfigure

SpecPulsed == InitPulsedOnly /\ [][NextPulsed]_vars

\* one procedure run: stabilization, then the measurement on the instrument
InitProcOnly ==
    /\ ax = AxIdle
    /\ FactoryIdle
    /\ InstrIdle
    /\ trig = TrigIdle
    /\ seq = SeqIdle
    /\ InitProc

NextProc ==
    \/ ProcExecute
    \/ ProcSetStop
    \/ ProcStabReturned
    \/ ProcCheckStopped
    \/ ProcCallMeasure
    \/ ProcMeasureReturned
    \/ ProcEmit
    \/ ProcFinish
    \/ StabSetStop
    \/ StabEntry
    \/ StabLoopStopped
    \/ StabPoll
    \/ StabPostStopped
    \/ StabProceed
    \/ SetAbort
    \/ \E t \in Threads : SwEnter(t)
    \/ \E t \in Threads : SwAbort(t)
    \/ \E t \in Threads : SwConfigure(t)
    \/ \E t \in Threads : SwArm(t)
    \/ \E t \in Threads : SwPollA(t)
    \/ \E t \in Threads : SwPollB(t)
    \/ \E t \in Threads : SwRead(t)
    \/ \E t \in Threads : RecEnter(t)
    \/ \E t \in Threads : RecInit(t)
    \/ \E t \in Threads : RecInitRaises(t)
    \/ \E t \in Threads : RecAbort(t)
    \/ \E t \in Threads : RecSweep(t)
    \/ \E t \in Threads : RecPostAppend(t)
    \/ \E t \in Threads : RecPostSkip(t)
    \/ \E t \in Threads : RecFinish(t)
    \/ InstrBegin
    \/ InstrStep
    \/ InstrEnd

SpecProc == InitProcOnly /\ [][NextProc]_vars

(***************************************************************************)
(* Claims.                                                                 *)
(***************************************************************************)
\* a caller's direct call of current_voltage_sweep_dual_smu is over
DualDone(t) == th[t].op = "dual" /\ th[t].pc = "idle"

\* a caller's recorder call over an outer list of two values is over
Recorder2Done(t) ==
    /\ th[t].op \in Recorders
    /\ th[t].outer = 2
    /\ th[t].pc = "idle"
    /\ th[t].outcome \in {"returned", "aborted"}

VectorLengths(r) == <<Len(r.v_smui), Len(r.i_smui), Len(r.v_smuv), Len(r.i_smuv)>>

\* C1: a dual sweep with equal-length lists that found abort_event unset at its
\* entry check has the trigger count of both channels programmed to the list
\* length while it runs, and returns four vectors of exactly that length
\* (direct calls and the calls a recorder makes).
C1_DualSweepLengths ==
    \A t \in Threads :
        /\ (th[t].sw = "dual" /\ th[t].pc \in {"sw_arm", "sw_poll_a", "sw_poll_b", "sw_read"})
              => /\ th[t].nI = th[t].nV
                 /\ hw.count[th[t].smui] = th[t].nI
                 /\ hw.count[th[t].smuv] = th[t].nV
        /\ (DualDone(t) /\ th[t].nI = th[t].nV /\ ~th[t].abortAtCheck)
              => /\ th[t].ret.kind = "vectors"
                 /\ VectorLengths(th[t].ret)
                      = <<th[t].nI, th[t].nI, th[t].nI, th[t].nI>>
        /\ (th[t].pc = "rec_post" /\ ~th[t].abortAtCheck)
              => /\ th[t].ret.kind = "vectors"
                 /\ VectorLengths(th[t].ret)
                      = <<th[t].axisN, th[t].axisN, th[t].axisN, th[t].axisN>>

C1_Witness ==
    \E t \in Threads :
        /\ DualDone(t) /\ ~th[t].abortAtCheck
        /\ th[t].nI = 2 /\ th[t].nV = 2
        /\ VectorLengths(th[t].ret) = <<2, 2, 2, 2>>

C3_UnequalLengthsRaise ==
    \A t \in Threads :
        (th[t].op = "dual" /\ th[t].nI # th[t].nV /\ th[t].pc \notin {"sw_lock", "sw_check"})
            => /\ th[t].pc = "idle"
               /\ th[t].outcome = "raised"
               /\ th[t].ret = RetValueError
               /\ th[t].writes = 0
               /\ ~th[t].touched

C3_Witness ==
    \E t \in Threads :
        /\ DualDone(t) /\ th[t].nI # th[t].nV
        /\ th[t].outcome = "raised"
        /\ ~th[t].abortAtCheck

\* a caller is inside a sweep or a recorder (past the top-level lock acquisition)
Inside(t) ==
    /\ th[t].pc # "idle"
    /\ th[t].pc # "rec_lock"
    /\ ~(th[t].pc = "sw_lock" /\ th[t].op \notin Recorders)

\* C4: at most one caller at a time is inside a sweep or a recorder; the one
\* inside owns the measurement lock; and from its first hardware write to its
\* final buffer clear no other caller has written to the instrument.
C4_MutualExclusion ==
    /\ \A t1 \in Threads, t2 \in Threads : (t1 # t2) => ~(Inside(t1) /\ Inside(t2))
    /\ \A t \in Threads :
          /\ Inside(t) => (lock.owner = t /\ lock.depth >= 1)
          /\ th[t].pc \in {"sw_arm", "sw_poll_a", "sw_poll_b", "sw_read"} => hw.writer = t

C4_Witness ==
    \E t1 \in Threads, t2 \in Threads :
        /\ t1 # t2
        /\ th[t1].pc = "sw_poll_a"
        /\ th[t2].pc \in {"sw_lock", "rec_lock"}
        /\ calls = 2

\* C5: requests with the same address got the identical instance, requests with
\* different addresses got distinct instances, the registry holds no two
\* instances with one visa_address, and every instance ever handed out is
\* still registered under its address.
C5_FactoryIdentity ==
    /\ \A i \in 1..Len(requests), j \in 1..Len(requests) :
          (requests[i].address = requests[j].address)
              <=> (requests[i].instance = requests[j].instance)
    /\ \A x \in instances, y \in instances : (x.visa_address = y.visa_address) => x = y
    /\ \A i \in 1..Len(requests) :
          [id |-> requests[i].instance, visa_address |-> requests[i].address] \in instances

C5_Witness ==
    \E i \in 1..Len(requests), j \in 1..Len(requests), k \in 1..Len(requests) :
        /\ i < j /\ j < k
        /\ requests[i].address = requests[k].address
        /\ requests[i].instance = requests[k].instance
        /\ requests[j].address # requests[i].address

\* C6 as stated: a recorder over two outer values with abort_event set at any
\* point before the second iteration's abort check returns exactly the rows of
\* the first outer value.  (Taken in the case most favourable to it: the first
\* iteration had already passed its own abort check when the abort arrived.)
C6_Original ==
    \A t \in Threads :
        (/\ Recorder2Done(t)
         /\ \/ th[t].ab.idx = 1 /\ th[t].ab.at = "body"
            \/ th[t].ab.idx = 2 /\ th[t].ab.at = "iter")
            => th[t].table = <<[outer |-> 1, rows |-> th[t].axisN]>>

\* C6 amended: with abort_event set after the first iteration's post-sweep test
\* and before the second iteration's abort check the returned table holds
\* exactly the first outer value's rows; set earlier in the run (after the
\* recorder's clear) the returned table is empty.
C6_AbortBeforeSecond ==
    \A t \in Threads :
        Recorder2Done(t) =>
            /\ (th[t].ab.idx = 2 /\ th[t].ab.at = "iter")
                  => /\ th[t].table = <<[outer |-> 1, rows |-> th[t].axisN]>>
                     /\ th[t].outcome = "aborted"
            /\ (th[t].ab.idx = 1)
                  => /\ th[t].table = <<>>
                     /\ th[t].outcome = "aborted"

C6_Witness ==
    \E t \in Threads :
        /\ Recorder2Done(t)
        /\ th[t].op = "transfer_i"
        /\ th[t].ab = [at |-> "iter", idx |-> 2]
        /\ th[t].table = <<[outer |-> 1, rows |-> 4]>>

\* stabilize_TB has returned
StabDone == stab.pc = "done"
BothInactive == ~stab.t_active /\ ~stab.m_active

\* C7 as stated: with both targets inactive stabilize_TB returns 'proceed' and
\* writes no setpoint.
C7_Original ==
    (StabDone /\ BothInactive) => (stab.result = "proceed" /\ stab.sp_writes = 0)

\* C7 amended: with both targets inactive stabilize_TB writes no setpoint; it
\* returns 'proceed' exactly when the stop flag is unset at the loop-top check
\* and at the post-loop check, after one poll cycle and without a post-settle
\* sleep, and 'stopped' otherwise.
C7_InactiveTargets ==
    BothInactive =>
        /\ stab.sp_writes = 0
        /\ StabDone =>
              /\ (stab.result = "proceed") <=> (~stab.stop_at_top /\ ~stab.stop_at_post)
              /\ (stab.result = "stopped") <=> (stab.stop_at_top \/ stab.stop_at_post)
              /\ (stab.result = "proceed") => (stab.polls = 1 /\ stab.slept = -1)

C7_Witness == StabDone /\ BothInactive /\ stab.result = "proceed" /\ stab.sp_writes = 0

\* C8: for an active target the stability predicate is true exactly for status
\* codes 100..199 (0, 99, 200, 250 unstable; 100, 199 stable), and a target is
\* stable in stabilize_TB only by a poll whose status read was in that band.
C8_StableBand ==
    /\ \A c \in StatusCodes :
          /\ IsStable(TRUE, c) <=> c \in 100..199
          /\ c \in {0, 99, 200, 250} => ~IsStable(TRUE, c)
          /\ c \in {100, 199} => IsStable(TRUE, c)
    /\ stab.t_active => (stab.t_stable <=> stab.t_code \in 100..199)
    /\ stab.m_active => (stab.m_stable <=> stab.m_code \in 100..199)

C8_Witness ==
    /\ stab.t_active /\ stab.t_stable /\ stab.t_code = 199
    /\ stab.m_active /\ ~stab.m_stable /\ stab.m_code = 200

\* C9: the swept axis of transfer_measurement_i is the forward list followed by
\* its exact reverse (2n points), the direction flags are 1 on the forward half
\* and 0 on the reverse half; start 0, stop 5, step 1 gives
\* [0,1,2,3,4,5,5,4,3,2,1,0] and [1,1,1,1,1,1,0,0,0,0,0,0].
C9_ForwardReverseAxis ==
    ax.phase = "built" =>
        LET n == Len(ax.fwd) IN
        /\ Len(ax.axis) = 2 * n
        /\ Len(ax.dir) = 2 * n
        /\ \A k \in 1..n :
              /\ ax.axis[k] = ax.fwd[k]
              /\ ax.axis[n + k] = ax.fwd[n + 1 - k]
              /\ ax.dir[k] = 1
              /\ ax.dir[n + k] = 0
        /\ (ax.start = 0 /\ ax.stop = 5 /\ ax.step = 1)
              => /\ ax.axis = <<0, 1, 2, 3, 4, 5, 5, 4, 3, 2, 1, 0>>
                 /\ ax.dir = <<1, 1, 1, 1, 1, 1, 0, 0, 0, 0, 0, 0>>

C9_Witness ==
    /\ ax.phase = "built"
    /\ ax.start = 0 /\ ax.stop = 5 /\ ax.step = 1
    /\ ax.axis = <<0, 1, 2, 3, 4, 5, 5, 4, 3, 2, 1, 0>>

\* C10: stabilize_TB tests the stop flag at the top of every poll cycle and once
\* after the loop; a set flag at either test makes it return 'stopped' without
\* the post-settle sleep, and it never returns 'proceed' with the flag set at
\* the post-loop test.
C10_StopChecks ==
    /\ stab.top_checks = stab.polls + (IF stab.stop_at_top THEN 1 ELSE 0)
    /\ (StabDone /\ ~stab.stop_at_top) => stab.post_checks = 1
    /\ stab.stop_at_top => stab.post_checks = 0
    /\ StabDone =>
          /\ (stab.stop_at_top \/ stab.stop_at_post) => stab.result = "stopped"
          /\ stab.result = "stopped" => stab.slept = -1
          /\ stab.result = "proceed" => ~stab.stop_at_post

C10_Witness ==
    /\ StabDone
    /\ stab.stop_at_post
    /\ stab.result = "stopped"
    /\ stab.polls >= 2
    /\ stab.slept = -1

\* C11 as stated: stabilize_TB returns 'proceed' only if, at the poll cycle that
\* ends its loop, the controller of every active target holds a status code in
\* [100,200).
C11_Original ==
    (StabDone /\ stab.result = "proceed")
        => /\ stab.t_active => InBand(stab.t_now)
           /\ stab.m_active => InBand(stab.m_now)

\* C11 amended: when 'proceed' is returned every target got its flag in some poll cycle of
\* the run, an active one by a status read in [100,200) at that cycle; the
\* loop ends at the cycle in which the last flag is set; a target is read only
\* up to the cycle that sets its flag, so the code of a target flagged in an
\* earlier cycle is the one read then, whatever its controller holds later.
C11_StableLatched ==
    /\ (StabDone /\ stab.result = "proceed")
          => /\ stab.t_at \in 1..stab.polls /\ stab.m_at \in 1..stab.polls
             /\ stab.t_at = stab.polls \/ stab.m_at = stab.polls
             /\ stab.t_active => InBand(stab.t_code)
             /\ stab.m_active => InBand(stab.m_code)
             /\ (stab.t_active /\ stab.t_at = stab.polls) => InBand(stab.t_now)
             /\ (stab.m_active /\ stab.m_at = stab.polls) => InBand(stab.m_now)
    /\ (stab.t_active /\ stab.t_stable /\ stab.t_at < stab.polls) => InBand(stab.t_code)
    /\ (stab.m_active /\ stab.m_stable /\ stab.m_at < stab.polls) => InBand(stab.m_code)

C11_Witness ==
    /\ StabDone /\ stab.result = "proceed"
    /\ stab.t_active /\ stab.m_active
    /\ stab.t_at = 1 /\ stab.m_at = 2
    /\ stab.t_code = 150 /\ stab.t_now = 250
    /\ stab.m_now = 100

\* the largest post-settle delay among those configured for the active targets
\* (-1 when no target is active: no sleep)
MaxActiveDelay ==
    IF stab.t_active /\ stab.m_active
    THEN (IF stab.wait_M >= stab.wait_T THEN stab.wait_M ELSE stab.wait_T)
    ELSE IF stab.t_active THEN stab.wait_T
    ELSE IF stab.m_active THEN stab.wait_M
    ELSE -1

\* C12: on full success stabilize_TB sleeps for the maximum of the post-settle
\* delays configured for the active targets, a delay configured for an inactive
\* target not contributing, and does not sleep when no target is active (only
\* temperature active, wait_after_stab_T = 5, wait_after_stab_M = 10: dwell 5).
C12_DwellOfActiveTargets ==
    (StabDone /\ stab.result = "proceed") => stab.slept = MaxActiveDelay

\* the channel in the current-source role (A) and in the voltage-source role (B)
ChanA == trig.smui
ChanB == Other(trig.smui)

\* measurements both channels have completed
BothMeasured == Min(trig.meas["smua"], trig.meas["smub"])

\* C13: in a dual sweep no channel's source step k+1 happens until both
\* channels have completed measurement k, and no channel re-sources while the
\* other channel is still measuring.
C13_LockstepSource ==
    (trig.pc = "run")
        => /\ \A c \in Channels : trig.src[c] <= BothMeasured + 1
           /\ ~trig.resrc

\* what the programmed stimuli do give: blender #2 is the AND of both channels'
\* measure-complete events and is channel A's end-of-pulse stimulus, so
\* channel A never sources step k+1 before both measurements k are complete,
\* and no channel starts measurement k before channel A sourced step k
TrigChannelAGated ==
    (trig.pc = "run")
        => /\ hw.blender[2] = [orenable |-> FALSE,
                               s1 |-> Event(ChanA, "MEASURE_COMPLETE"),
                               s2 |-> Event(ChanB, "MEASURE_COMPLETE")]
           /\ hw.endpulse_stim[ChanA] = BlenderEvent(2)
           /\ trig.src[ChanA] <= BothMeasured + 1
           /\ \A c \in Channels :
                 trig.meas[c] + (IF trig.phase[c] = "measuring" THEN 1 ELSE 0)
                     <= trig.src[ChanA]

\* C14: every top-level measurement (the three recorders, and
\* current_sweep_single_smu called directly) begins with abort_event cleared:
\* unless an abort arrives after its start, the flag is unset when its work
\* begins, and an abort left set before the call never suppresses it.
C14_ClearedAtStart ==
    \A t \in Threads :
        /\ (th[t].op \in Recorders /\ th[t].pc = "rec_iter" /\ th[t].idx = 1
                /\ th[t].ab = AbNone)
              => ~abort_event
        /\ (th[t].op = "single" /\ th[t].pc = "sw_check" /\ th[t].ab = AbNone)
              => ~abort_event
        /\ (th[t].op = "single" /\ th[t].pc = "idle" /\ th[t].abortAtCall)
              => Len(th[t].ret.v_smui) = th[t].nI

\* a caller's recorder call has returned its table
RecorderReturned(t) ==
    /\ th[t].op \in Recorders
    /\ th[t].pc = "idle"
    /\ th[t].outcome \in {"returned", "aborted"}

\* C15: a curve recorder resets the instrument exactly once, as the last thing
\* before it returns (after exhausting the outer list or after seeing abort at
\* an iteration start): at the return the outputs are off, the channels idle
\* and the stimuli and blenders at their defaults; the returned table is the
\* table accumulated so far, one batch per callback made, in outer-list order.
C15_ResetThenReturn ==
    \A t \in Threads :
        /\ (th[t].op \in Recorders /\ th[t].pc # "idle") => th[t].resets = 0
        /\ RecorderReturned(t)
              => /\ th[t].resets = 1
                 /\ hw.writer = t
                 /\ hw.output = HwInit.output
                 /\ hw.chan = HwInit.chan
                 /\ hw.arm_stim = HwInit.arm_stim
                 /\ hw.src_stim = HwInit.src_stim
                 /\ hw.endpulse_stim = HwInit.endpulse_stim
                 /\ hw.blender = HwInit.blender
                 /\ Len(th[t].table) = th[t].cbs
                 /\ \A i \in 1..Len(th[t].table) :
                       /\ th[t].table[i].rows = th[t].axisN
                       /\ th[t].table[i].outer \in 1..th[t].outer
                       /\ (i > 1) => th[t].table[i - 1].outer < th[t].table[i].outer
                 /\ (th[t].outcome = "returned" /\ th[t].ab = AbNone)
                       => Len(th[t].table) = th[t].outer

C15_Witness ==
    \E t \in Threads :
        /\ RecorderReturned(t)
        /\ th[t].outcome = "aborted"
        /\ th[t].outer = 2
        /\ th[t].table = <<[outer |-> 1, rows |-> th[t].axisN]>>
        /\ th[t].resets = 1
        /\ hw.gen = 1
        /\ hw.output = HwInit.output

\* C16: a sweep call whose 'pulsed' argument is not one of the booleans True and
\* False raises a type error instead of programming an end-of-pulse action.
C16_NonBoolPulsedRaises ==
    (trig.pc = "configured" /\ trig.pulsed \notin PyBool)
        => /\ trig.raised
           /\ hw.endpulse_action = trig.ep0

\* the channels taking part in a caller's sweep
Participating(t) == {th[t].smui, th[t].smuv}

\* the readings a return value holds
Readings(r) ==
    {r.v_smui[i] : i \in 1..Len(r.v_smui)} \cup {r.i_smui[i] : i \in 1..Len(r.i_smui)}
        \cup {r.v_smuv[i] : i \in 1..Len(r.v_smuv)}
        \cup {r.i_smuv[i] : i \in 1..Len(r.i_smuv)}

\* C17: in every sweep that reaches the hardware both buffers of each
\* participating channel are empty when the channel is initiated, hold only
\* readings of this sweep when they are read, and are empty again once the call
\* has returned (until another caller writes to the instrument); the vectors
\* returned hold only readings taken during that sweep, whatever calls came
\* before.
C17_NoStaleData ==
    /\ \A c \in Channels :
          hw.chan[c] = "initiated" => (hw.buf1[c] = <<>> /\ hw.buf2[c] = <<>>)
    /\ \A t \in Threads :
          /\ th[t].pc = "sw_arm"
                => \A c \in Participating(t) : hw.buf1[c] = <<>> /\ hw.buf2[c] = <<>>
          /\ th[t].pc = "sw_read"
                => \A c \in Participating(t) :
                      /\ \A i \in 1..Len(hw.buf1[c]) : hw.buf1[c][i] = th[t].gen
                      /\ \A i \in 1..Len(hw.buf2[c]) : hw.buf2[c][i] = th[t].gen
          /\ (th[t].pc \in {"idle", "rec_post"} /\ th[t].ret.kind = "vectors")
                => /\ Readings(th[t].ret) \subseteq {th[t].gen}
                   /\ (hw.writer = t)
                         => \A c \in Participating(t) :
                               hw.buf1[c] = <<>> /\ hw.buf2[c] = <<>>

C17_Witness ==
    \E t \in Threads :
        /\ th[t].pc = "idle" /\ th[t].op = "dual"
        /\ th[t].gen = 2
        /\ th[t].ret.i_smui = <<2, 2>>
        /\ th[t].ret.v_smuv = <<2, 2>>
        /\ hw.buf1 = HwInit.buf1 /\ hw.buf2 = HwInit.buf2

\* no call on the instrument has been made and nothing has been emitted
NothingMeasured ==
    /\ calls = 0
    /\ proc.sweep_calls = 0
    /\ hw = HwInit
    /\ \A t \in Threads : th[t].pc = "idle" /\ th[t].op = "none"
    /\ proc.emitted = 0

\* C18: in a procedure run stabilize_TB is invoked exactly once and has
\* returned before any sweep or recorder call on the instrument; when it
\* returns 'stopped', or the stop flag is set at the check that follows it, no
\* instrument call is made and no result is emitted.
C18_StabilizeBeforeSweep ==
    /\ proc.stab_calls = (IF proc.pc \in {"off", "start"} THEN 0 ELSE 1)
    /\ proc.pc \in {"start", "stabilizing", "check"} => NothingMeasured
    /\ ~NothingMeasured
          => /\ stab.pc = "off"
             /\ proc.stab_result = "proceed"
             /\ ~proc.stop_at_check
             /\ proc.sweep_calls = 1
    /\ (proc.stab_result = "stopped" \/ proc.stop_at_check)
          => (proc.pc = "done" /\ proc.outcome = "stopped" /\ NothingMeasured)

C18_Witness ==
    /\ proc.pc = "done"
    /\ proc.stab_result = "proceed"
    /\ proc.stop_at_check
    /\ (proc.t_active \/ proc.m_active)
    /\ NothingMeasured

\* the returned table of a recorder lacks the rows of at least one outer value
MissingOuterValue(t) == Len(th[t].table) < th[t].outer

\* C19: whenever a curve recorder run is aborted early, so that the returned
\* table is missing the rows of at least one outer value, the beep has been
\* emitted before the recorder returns, wherever in the run the abort arrived.
C19_BeepOnEarlyAbort ==
    \A t \in Threads :
        (RecorderReturned(t) /\ MissingOuterValue(t)) => th[t].beeps >= 1

\* an abort seen at the start of an iteration is announced by the beep
C19_BeepAtIterationStart ==
    \A t \in Threads :
        (RecorderReturned(t) /\ th[t].outcome = "aborted")
            => (th[t].beeps = 1 /\ MissingOuterValue(t))

RecorderRunning(t) ==
    /\ th[t].op \in Recorders
    /\ th[t].pc \notin {"rec_lock", "rec_init"}
    /\ th[t].outcome # "raised"

\* the table of a run: batches of len(primary axis) rows, in outer-list order,
\* each followed by one callback invocation with (outer value, batch)
TableWellFormed(t) ==
    /\ \A i \in 1..Len(th[t].table) :
          /\ th[t].table[i].rows = th[t].axisN
          /\ th[t].table[i].outer \in 1..th[t].outer
          /\ th[t].table[i].outer < th[t].idx
          /\ i > 1 => th[t].table[i - 1].outer < th[t].table[i].outer
    /\ TableRows(th[t].table) = Len(th[t].table) * th[t].axisN
    /\ th[t].cbs = (IF th[t].callback THEN Len(th[t].table) ELSE 0)
    /\ th[t].cbArgs = (IF th[t].callback THEN th[t].table ELSE <<>>)

\* the step of a run that follows the sweep of outer value idx
AfterSweepStep(t) ==
    /\ th[t].pc = "rec_post"
    /\ th'[t].pc # "rec_post"
    /\ IF abort_event
       THEN th'[t].table = th[t].table /\ th'[t].cbs = th[t].cbs
       ELSE /\ th'[t].table = Append(th[t].table,
                                     [outer |-> th[t].idx, rows |-> th[t].axisN])
            /\ th'[t].cbs = th[t].cbs + (IF th[t].callback THEN 1 ELSE 0)

\* C21: in every curve recorder run, an outer value whose sweep finishes with
\* abort_event unset appends exactly one batch of len(primary axis) rows and
\* then invokes the callback (if supplied) once with that outer value and that
\* batch; one whose sweep ends with abort_event set appends nothing and invokes
\* nothing; the table changes at no other step, its batches are in outer-list
\* order, the callback count equals the batch count and the row count is
\* batches times len(primary axis).
C21_BatchPerOuterValue ==
    /\ [](\A t \in Threads : RecorderRunning(t) => TableWellFormed(t))
    /\ [][\A t \in Threads :
            (th[t].op \in Recorders /\ th[t].pc \notin {"idle", "rec_lock", "rec_init"})
                => IF th[t].pc = "rec_post" /\ th'[t].pc # "rec_post"
                   THEN AfterSweepStep(t)
                   ELSE th'[t].table = th[t].table /\ th'[t].cbs = th[t].cbs]_vars

C21_Witness ==
    \E t \in Threads :
        /\ RecorderReturned(t)
        /\ th[t].outer = 2
        /\ ~th[t].callback
        /\ th[t].axisN >= 2
        /\ Len(th[t].table) = 1
        /\ th[t].table[1].outer = 1
        /\ th[t].cbs = 0

C21_WitnessCallback ==
    \E t \in Threads :
        /\ RecorderReturned(t)
        /\ th[t].outer = 2
        /\ th[t].callback
        /\ th[t].cbArgs = <<[outer |-> 1, rows |-> th[t].axisN],
                             [outer |-> 2, rows |-> th[t].axisN]>>

\* the sweep a caller programmed has run to its end on the channels it uses
SweepOver(t) ==
    \A c \in Participating(t) : hw.chan[c] = "idle" /\ hw.k[c] = hw.count[c]

\* C22: a sweep call reads the buffers only after its polling has observed the
\* sweeping status non-zero (end of phase a) and afterwards zero (end of phase
\* b); at the read the sweep it started is over on its channels, and a call
\* that returned readings went through both observations.
C22_TwoPhasePoll ==
    \A t \in Threads :
        /\ th[t].pc = "sw_read"
              => /\ Len(th[t].obs) = 2
                 /\ th[t].obs[1] # 0
                 /\ th[t].obs[2] = 0
                 /\ SweepOver(t)
        /\ th[t].pc = "sw_poll_b" => (Len(th[t].obs) = 1 /\ th[t].obs[1] # 0)
        /\ th[t].pc \in {"sw_check", "sw_arm", "sw_poll_a"} => th[t].obs = <<>>
        /\ (th[t].pc \in {"idle", "rec_post"} /\ th[t].ret.kind = "vectors"
                /\ th[t].ret.i_smui # <<>>)
              => (Len(th[t].obs) = 2 /\ th[t].obs[1] # 0 /\ th[t].obs[2] = 0)

C22_Witness ==
    \E t \in Threads :
        /\ th[t].pc = "idle"
        /\ th[t].op = "dual"
        /\ th[t].obs = <<6, 0>>
        /\ Len(th[t].ret.i_smui) = 2
        /\ Len(th[t].ret.i_smuv) = 2

\* the positions in the log of the statements named ops
Positions(log, ops) == {i \in 1..Len(log) : log[i].op \in ops}

\* the statements named a have all been made, and each before all those named b
AllBefore(log, a, b) ==
    /\ Positions(log, a) # {}
    /\ \A i \in Positions(log, a), j \in Positions(log, b) : i < j

\* the statements of a call up to and including send_trigger()
PreTrigger(log) ==
    IF Positions(log, {"send_trigger"}) = {} THEN log
    ELSE SubSeq(log, 1, CHOOSE i \in Positions(log, {"send_trigger"}) : TRUE)

StimulusOps ==
    {"measure.stimulus", "arm.stimulus", "source.stimulus", "endpulse.stimulus",
     "blender.orenable", "blender.stimulus1", "blender.stimulus2"}

\* the statement-wise call and the call as two steps program the same instrument
SeqMatchesConfigure ==
    (seq.phase = "poll_a" /\ hw.trg)
        => hw = IF seq.kind = "dual"
                THEN DualArm(DualConfigure(seq.hw0, "t1", seq.smui, seq.smuv, seq.n,
                                           seq.n, seq.pulsed),
                             "t1", seq.smui, seq.smuv)
                ELSE SingleArm(SingleConfigure(seq.hw0, "t1", seq.smui, seq.n, seq.pulsed),
                               "t1", seq.smui)

\* the global trigger is sent once, after both channels are initiated, and no
\* statement follows it until the sweep has been observed finished
TriggerOnceAndLast ==
    /\ Cardinality(Positions(seq.log, {"send_trigger"})) <= 1
    /\ seq.phase \in {"poll_a", "poll_b", "read"}
          => /\ Cardinality(Positions(seq.log, {"send_trigger"})) = 1
             /\ seq.log[Len(seq.log)].op = "send_trigger"
    /\ seq.phase = "config" => Positions(seq.log, {"send_trigger"}) = {}
    /\ Positions(seq.log, {"send_trigger"}) # {}
          => /\ AllBefore(seq.log, StimulusOps, {"source.output"})
             /\ AllBefore(seq.log, {"source.output"}, {"initiate"})
             /\ AllBefore(seq.log, {"initiate"}, {"send_trigger"})
             /\ Cardinality(Positions(seq.log, {"initiate"})) = Cardinality({seq.smui, seq.smuv})
             /\ Cardinality(Positions(seq.log, {"source.output"})) = Cardinality({seq.smui, seq.smuv})

\* C23 as stated: in a dual sweep the global trigger is sent once and only
\* after, in this order, the lists are loaded, the trigger counts set, the
\* buffers cleared, blenders and stimuli configured, outputs enabled and both
\* channels initiated; nothing is written after it until the sweep is over.
C23_Original ==
    (seq.kind = "dual" /\ seq.phase # "off")
        => /\ TriggerOnceAndLast
           /\ Positions(seq.log, {"send_trigger"}) # {}
                 => /\ AllBefore(PreTrigger(seq.log), {"source.listi", "source.listv"},
                                 {"trigger.count"})
                    /\ AllBefore(PreTrigger(seq.log), {"trigger.count"}, {"nvbuffer.clear"})
                    /\ AllBefore(PreTrigger(seq.log), {"nvbuffer.clear"}, StimulusOps)

\* C23 amended: as stated, except that the buffers are cleared before the
\* trigger counts are set: lists, buffers cleared, counts, stimuli and
\* blenders, outputs, initiate, then the one global trigger.
C23_TriggerLast ==
    (seq.kind = "dual" /\ seq.phase # "off")
        => /\ TriggerOnceAndLast
           /\ Positions(seq.log, {"send_trigger"}) # {}
                 => /\ AllBefore(PreTrigger(seq.log), {"source.listi", "source.listv"},
                                 {"nvbuffer.clear"})
                    /\ AllBefore(PreTrigger(seq.log), {"nvbuffer.clear"}, {"trigger.count"})
                    /\ AllBefore(PreTrigger(seq.log), {"trigger.count"}, StimulusOps)

C23_Witness ==
    /\ seq.kind = "dual"
    /\ seq.phase = "poll_b"
    /\ seq.calls = 2
    /\ hw.chan = [c \in Channels |-> "sweeping"]
    /\ seq.log[Len(seq.log)].op = "send_trigger"

\* the number of measurements channel c has started
MeasureStarted(c) == trig.meas[c] + (IF trig.phase[c] = "measuring" THEN 1 ELSE 0)

\* C24: in a dual sweep the measurement of step k is released on both channels
\* by the same event, the source-complete of step k of channel A (the current
\* source): no channel has started more measurements than A has completed
\* source steps, and the measure stimulus of channel B is A's event, not B's.
C24_MeasureOnSourceOfA ==
    trig.pc = "run"
        => /\ \A c \in Channels : MeasureStarted(c) <= trig.src[ChanA]
           /\ hw.meas_stim[ChanA] = Event(ChanA, "SOURCE_COMPLETE")
           /\ hw.meas_stim[ChanB] = Event(ChanA, "SOURCE_COMPLETE")
           /\ hw.meas_stim[ChanB] # Event(ChanB, "SOURCE_COMPLETE")

C24_Witness ==
    /\ trig.pc = "run"
    /\ trig.n = 2
    /\ trig.src[ChanA] = 2
    /\ trig.meas[ChanB] = 1
    /\ trig.phase[ChanB] = "measuring"
    /\ trig.phase[ChanA] = "measuring"

\* the autorange setting of the quantity channel c does not sweep: voltage
\* autorange when it sources current, current autorange when it sources voltage
NonSweptAutorange(c) ==
    IF seq.func[c] = "OUTPUT_DCAMPS" THEN seq.autorangev[c] ELSE seq.autorangei[c]

\* the configuration of the current call is complete
SeqConfigured == seq.phase \in {"poll_a", "poll_b", "read"}

\* C25: every sweep call, dual or single, enables autorange for the non-swept
\* measurement quantity of each participating channel exactly when that
\* channel's high-capacitance mode is disabled, and leaves the channel's
\* autorange settings untouched when high-capacitance mode is on.
C25_AutorangeNonSwept ==
    SeqConfigured
        => \A c \in {seq.smui, seq.smuv} :
              /\ ~seq.highc[c] => NonSweptAutorange(c)
              /\ seq.highc[c] => /\ seq.autorangev[c] = seq.arv0[c]
                                 /\ seq.autorangei[c] = seq.ari0[c]

\* the same for the dual sweep alone, which holds
DualAutorangeNonSwept ==
    (SeqConfigured /\ seq.kind = "dual") => C25_AutorangeNonSwept

\* what the single sweep does: with high-capacitance mode off it enables the
\* current autorange of the channel that sources current
SingleAutorangeSwept ==
    (SeqConfigured /\ seq.kind = "single")
        => /\ seq.func[seq.smui] = "OUTPUT_DCAMPS"
           /\ ~seq.highc[seq.smui] => seq.autorangei[seq.smui]
           /\ seq.autorangev[seq.smui] = seq.arv0[seq.smui]

\* C26: for a target whose control-active flag is false no controller call of
\* any kind is made in stabilize_TB (no connect caused by it, no setpoint
\* write, no status read, no value read), it counts as stable after the first
\* poll cycle and its value read gives the sentinel -1; for an active target
\* the setpoint is written exactly once, before the first status poll.
C26_InactiveTargetUntouched ==
    /\ ~stab.t_active
          => /\ stab.t_ctl = NoCalls
             /\ stab.polls >= 1 => (stab.t_stable /\ stab.t_at = 1 /\ stab.t_value = -1)
    /\ ~stab.m_active
          => /\ stab.m_ctl = NoCalls
             /\ stab.polls >= 1 => (stab.m_stable /\ stab.m_at = 1 /\ stab.m_value = -1)
    /\ \A c \in StatusCodes : IsStable(FALSE, c)
    /\ \A r \in ControllerReadings : GetValue(FALSE, r) = -1 /\ GetValue(TRUE, r) = r
    /\ stab.pc = "entry" => (stab.t_ctl = NoCalls /\ stab.m_ctl = NoCalls /\ stab.polls = 0)
    /\ (stab.pc \in {"loop", "done"} /\ stab.t_active)
          => (stab.t_ctl.set = 1 /\ stab.t_ctl.status <= stab.polls)
    /\ (stab.pc \in {"loop", "done"} /\ stab.m_active)
          => (stab.m_ctl.set = 1 /\ stab.m_ctl.status <= stab.polls)

C26_Witness ==
    /\ stab.pc = "done"
    /\ stab.result = "proceed"
    /\ stab.t_active /\ ~stab.m_active
    /\ stab.polls = 2
    /\ stab.t_ctl = [connect |-> 0, set |-> 1, status |-> 2, value |-> 2]
    /\ stab.m_ctl = NoCalls
    /\ stab.m_value = -1
    /\ stab.t_value = 300

\* the forward half built from start, stop, step: non-empty, from start, in
\* steps of |step| towards stop, ending at the first grid value at or beyond
\* stop
ForwardHalfReachesStop ==
    LET d == Sign(ax.stop - ax.start)
        n == Len(ax.fwd)
    IN  /\ n >= 1
        /\ ax.fwd[1] = ax.start
        /\ \A k \in 1..(n - 1) : ax.fwd[k + 1] - ax.fwd[k] = d * Abs(ax.step)
        /\ d * (ax.fwd[n] - ax.stop) >= 0
        /\ d * (ax.fwd[n] - ax.stop) < Abs(ax.step)
        /\ \A k \in 1..(n - 1) : d * (ax.fwd[k] - ax.stop) < 0

\* C27: for every start, stop and non-zero step, stop < start and start = stop
\* included, axis construction does not fail and the forward half is
\* non-empty, begins at start, moves towards stop in increments of |step| and
\* ends at the first grid value at or beyond stop.
C27_ForwardAxisAlwaysBuilt ==
    (ax.phase \in {"built", "raised"} /\ ax.step # 0)
        => (ax.phase = "built" /\ ForwardHalfReachesStop)

\* the same with start = stop left out, which holds
ForwardAxisDistinctEnds ==
    (ax.phase \in {"built", "raised"} /\ ax.step # 0 /\ ax.start # ax.stop)
        => (ax.phase = "built" /\ ForwardHalfReachesStop)

\* with start = stop the step is 0 and np.arange raises
ForwardAxisEqualEndsRaises ==
    (ax.phase \in {"built", "raised"} /\ ax.start = ax.stop) => ax.phase = "raised"

\* a caller's direct sweep call has returned after passing its entry checks
DirectSweepReturned(t) ==
    /\ th[t].op \in {"dual", "single"}
    /\ th[t].pc = "idle"
    /\ th[t].outcome = "returned"
    /\ ~th[t].abortAtCheck

\* the vectors a sweep returns have the length of its lists
FullLength(t) ==
    /\ th[t].ret.kind = "vectors"
    /\ Len(th[t].ret.v_smui) = th[t].nI
    /\ Len(th[t].ret.i_smui) = th[t].nI
    /\ th[t].op = "dual"
          => (Len(th[t].ret.v_smuv) = th[t].nV /\ Len(th[t].ret.i_smuv) = th[t].nV)

\* C28: a sweep call that has passed its entry abort check runs its whole
\* sequence (configure, trigger, both polling phases, read, clear) and returns
\* full-length vectors whether or not abort_event becomes set meanwhile; a
\* recorder acts on the abort only after the sweep has returned.
C28_SweepNotInterrupted ==
    \A t \in Threads :
        /\ DirectSweepReturned(t)
              => /\ FullLength(t)
                 /\ th[t].writes = 3
                 /\ Len(th[t].obs) = 2 /\ th[t].obs[1] # 0 /\ th[t].obs[2] = 0
        /\ (th[t].pc = "rec_post" /\ ~th[t].abortAtCheck)
              => /\ th[t].ret.kind = "vectors"
                 /\ VectorLengths(th[t].ret)
                      = <<th[t].axisN, th[t].axisN, th[t].axisN, th[t].axisN>>
                 /\ Len(th[t].obs) = 2
        /\ (th[t].op \in Recorders /\ th[t].outcome = "aborted")
              => th[t].pc = "idle" /\ th[t].ab.at # "none"

C28_Witness ==
    \E t \in Threads :
        /\ DirectSweepReturned(t)
        /\ th[t].op = "dual"
        /\ abort_event
        /\ ~th[t].abortAtCall
        /\ th[t].ab.at = "body"
        /\ th[t].nI = 2
        /\ VectorLengths(th[t].ret) = <<2, 2, 2, 2>>

\* the recorder called by a TBG run is past its initialisation and has not
\* yet returned
InsideRecorder ==
    /\ proc.kind = "TBG"
    /\ proc.pc = "measuring"
    /\ PastRecInit(th["t1"])

\* C29: the stop request that stabilize_TB tests with should_stop() is the
\* signal the recorder and the sweep poll (abort_event): a stop requested while
\* TBGProcedure.execute is inside transfer_measurement_i is visible to the
\* recorder's and the sweep's next abort check.
C29_SharedAbortSignal ==
    (InsideRecorder /\ stab.stop /\ proc.stop_inside) => abort_event

\* a run whose stop was requested during the recorder's first sweep still
\* records and emits every row
StopUnseenByRecorder ==
    /\ proc.kind = "TBG"
    /\ proc.pc = "done"
    /\ proc.outcome = "finished"
    /\ stab.stop
    /\ proc.stop_inside
    /\ ~abort_event
    /\ th["t1"].outcome = "returned"
    /\ th["t1"].beeps = 0
    /\ proc.rows = th["t1"].axisN
    /\ proc.emitted = proc.rows

\* the statements of the current call that write blender n
BlenderWrites(n) == {seq.log[i].op : i \in {j \in 1..Len(seq.log) : seq.log[j].n = n}}

\* the events a blender combines
BlenderInputs(n) == {hw.blender[n].s1, hw.blender[n].s2}

\* C30: before initiating, every sweep call, dual or single, writes the mode
\* and both stimulus inputs of blender 1 and of blender 2, so no blender field
\* holds a value written by an earlier call; in particular after a single
\* sweep no blender stimulus refers to the other channel.
C30_BlendersFresh ==
    SeqConfigured
        => /\ \A n \in 1..2 :
                BlenderWrites(n)
                    = {"blender.orenable", "blender.stimulus1", "blender.stimulus2"}
           /\ \A n \in 1..2 : \A e \in BlenderInputs(n) : e.smu \in {seq.smui, seq.smuv}

\* the dual sweep does write every blender field
DualBlendersFresh ==
    (SeqConfigured /\ seq.kind = "dual") => C30_BlendersFresh

\* a single sweep that follows a dual sweep of the same current source keeps
\* the other channel's MEASURE_COMPLETE as second input of blender 2
SingleKeepsStaleStimulus ==
    /\ SeqConfigured
    /\ seq.kind = "single"
    /\ seq.calls = 2
    /\ hw.blender[2].orenable
    /\ hw.blender[2].s1 = Event(seq.smui, "MEASURE_COMPLETE")
    /\ hw.blender[2].s2 = Event(Other(seq.smui), "MEASURE_COMPLETE")

\* a TBIV run whose stabilization let it proceed and whose single sweep
\* returned one reading per drain current, and execute() has ended
TBIVSweepCompleted ==
    /\ proc.kind = "TBIV"
    /\ proc.pc = "done"
    /\ proc.stab_result = "proceed"
    /\ proc.sweep_calls = 1
    /\ th["t1"].pc = "idle"
    /\ th["t1"].ret.kind = "vectors"
    /\ Len(th["t1"].ret.v_smui) = proc.n
    /\ Len(th["t1"].ret.i_smui) = proc.n

\* C31: after a successful stabilization and a completed single-channel sweep,
\* TBIVProcedure.execute emits exactly one 'results' record per swept point
\* (Index 0, 1, 2, ... in sweep order) and terminates normally.
C31_TBIVEmitsPerPoint ==
    TBIVSweepCompleted
        => /\ proc.outcome = "finished"
           /\ proc.emitted = proc.n

\* what the run does instead: the sweep is made, the loop header raises and
\* no record is emitted
TBIVRaisesAfterSweep ==
    TBIVSweepCompleted => (proc.outcome = "raised" /\ proc.emitted = 0)

(***************************************************************************)
(* Termination of a sweep call.  One caller makes sweep calls with         *)
(* abort_event unset; the caller's thread keeps running (each polling loop *)
(* reads the status again every 100 ms) and the instrument, once triggered,*)
(* starts its sweep, takes its readings and finishes, at its own pace.     *)
(***************************************************************************)
NextLive ==
    \/ \E c \in Channels, n \in 1..MaxLen : CallDual("t1", c, n, n, "False")
    \/ \E c \in Channels, n \in 1..MaxLen : CallSingle("t1", c, n, "False")
    \/ SwEnter("t1")
    \/ SwConfigure("t1")
    \/ SwArm("t1")
    \/ SwPollA("t1")
    \/ SwPollB("t1")
    \/ SwRead("t1")
    \/ InstrBegin
    \/ InstrStep
    \/ InstrEnd

\* the steps of the caller's thread inside a sweep call
CallerSteps ==
    \/ SwEnter("t1")
    \/ SwConfigure("t1")
    \/ SwArm("t1")
    \/ SwPollA("t1")
    \/ SwPollB("t1")
    \/ SwRead("t1")

\* the instrument's steps
InstrumentSteps == InstrBegin \/ InstrStep \/ InstrEnd

SpecLive ==
    /\ Init
    /\ [][NextLive]_vars
    /\ WF_vars(CallerSteps)
    /\ WF_vars(InstrumentSteps)

\* the caller is inside a sweep call
InSweepCall == th["t1"].pc # "idle"

\* the instrument has started and finished the sweep the caller programmed
\* while the caller had not yet read a non-zero status in its first wait
SweepMissed ==
    /\ th["t1"].pc = "sw_poll_a"
    /\ ~hw.trg
    /\ \A c \in Channels : hw.chan[c] # "initiated"
    /\ SweepingCondition(hw) = 0
    /\ Len(hw.buf1[th["t1"].smui]) = th["t1"].nI

\* C32: with abort unset and an instrument that, after the global trigger,
\* starts sweeping and later finishes, every sweep call eventually returns,
\* whatever the timing of the status changes relative to the polls (a sweep
\* that starts and finishes between two polls included).
C32_SweepCallReturns == (InSweepCall /\ ~abort_event) ~> ~InSweepCall

\* a call that has read a non-zero status in its first wait does return
SeenSweepingReturns == (th["t1"].pc = "sw_poll_b") ~> ~InSweepCall

\* every call reaches its first wait
ReachesFirstWait ==
    (th["t1"].pc \in {"sw_lock", "sw_check", "sw_arm"}) ~> (th["t1"].pc = "sw_poll_a")

\* a missed sweep is never left: the first wait reads 0 for ever
MissedSweepBlocks == [][SweepMissed => SweepMissed']_vars

(***************************************************************************)
(* Exits of a call by an exception of the transport.  Every statement that *)
(* talks to the instrument (a write of the configuration, send_trigger, a  *)
(* read of the status or of a buffer, self.reset(), the beeper) may raise; *)
(* nothing in the sweeps or the recorders catches it, so it leaves each    *)
(* enclosing "with self._measurement_lock" (lines 66, 309, 414, 509, 587)  *)
(* and each of them releases the re-entrant lock once.                     *)
(***************************************************************************)
\* the lock after an exception has left n nested with statements
UnwindInnermost(l, n) ==
    IF l.depth <= 1 THEN LockFree ELSE [l EXCEPT !.depth = @ - 1]
Unwind(l, n) ==
    IF l.depth <= n THEN LockFree ELSE [l EXCEPT !.depth = @ - n]

\* a statement of a sweep raises: out of the sweep and, when a recorder
\* called it, out of the recorder too
SwTransportError(t) ==
    /\ \/ /\ th[t].pc = "sw_check"
          /\ ~LengthsDiffer(th[t].sw, th[t].nI, th[t].nV)
          /\ ~AbortSeen(abort_event)
       \/ th[t].pc \in {"sw_arm", "sw_poll_a", "sw_poll_b", "sw_read"}
    /\ th' = [th EXCEPT ![t].pc = "idle", ![t].sw = "none",
                        ![t].ret = [RetNone EXCEPT !.kind = "TransportError"],
                        ![t].hw0 = HwInit,
                        ![t].outcome = "raised"]
    /\ lock' = Unwind(lock, IF th[t].op \in Recorders THEN 2 ELSE 1)
    /\ UNCHANGED <<abort_event, hw, calls>>
    /\ UNCHANGED OthersOfInstr

\* a statement of the recorder itself raises (self.reset() or the beeper of
\* lines 335-336 and 369, with the lock held once)
RecTransportError(t) ==
    /\ th[t].pc = "rec_iter"
    /\ (th[t].idx <= th[t].outer) => abort_event
    /\ th' = [th EXCEPT ![t].pc = "idle",
                        ![t].ret = [RetNone EXCEPT !.kind = "TransportError"],
                        ![t].outcome = "raised"]
    /\ lock' = Unwind(lock, 1)
    /\ UNCHANGED <<abort_event, hw, calls>>
    /\ UNCHANGED OthersOfInstr

\* one caller making calls that end in any of the ways a call can end: return,
\* early abort return, ValueError, exception of the transport (lists of one
\* point; the recorder: one outer value, axis from 0 to 0 or 1)
NextLock ==
    \/ \E nV \in 1..2 : CallDual("t1", "smub", 1, nV, "False")
    \/ CallSingle("t1", "smub", 1, "False")
    \/ \E stop \in 0..1 : CallRecorder("t1", "transfer_i", "smub", <<0, stop, 1>>, 1)
    \/ SetAbort
    \/ \E t \in Threads : SwEnter(t)
    \/ \E t \in Threads : SwRaise(t)
    \/ \E t \in Threads : SwAbort(t)
    \/ \E t \in Threads : SwConfigure(t)
    \/ \E t \in Threads : SwArm(t)
    \/ \E t \in Threads : SwPollA(t)
    \/ \E t \in Threads : SwPollB(t)
    \/ \E t \in Threads : SwRead(t)
    \/ \E t \in Threads : SwTransportError(t)
    \/ \E t \in Threads : RecEnter(t)
    \/ \E t \in Threads : RecInit(t)
    \/ \E t \in Threads : RecInitRaises(t)
    \/ \E t \in Threads : RecAbort(t)
    \/ \E t \in Threads : RecSweep(t)
    \/ \E t \in Threads : RecPostAppend(t)
    \/ \E t \in Threads : RecPostSkip(t)
    \/ \E t \in Threads : RecFinish(t)
    \/ \E t \in Threads : RecTransportError(t)
    \/ InstrBegin
    \/ InstrStep
    \/ InstrEnd

SpecLock == Init /\ [][NextLock]_vars

\* the number of "with self._measurement_lock" statements caller t is inside
WithsEntered(t) ==
    IF th[t].pc \in {"idle", "rec_lock"} THEN 0
    ELSE IF th[t].op \notin Recorders THEN (IF th[t].pc = "sw_lock" THEN 0 ELSE 1)
    ELSE IF th[t].pc \in InSweep THEN 2
    ELSE 1

\* C33: the measurement lock is free after every exit of a sweep or recorder
\* call (return, early abort return, configuration error, exception of the
\* transport); a recorder that holds the lock enters the sweep it calls
\* without blocking on itself; so once the calls made have ended, a sweep call
\* by any caller can acquire the lock.
C33_LockFreeAfterExit ==
    /\ \A t \in Threads :
          /\ th[t].pc = "idle" => lock.owner # t
          /\ WithsEntered(t) > 0 => lock = [owner |-> t, depth |-> WithsEntered(t)]
          /\ (th[t].pc = "sw_lock" /\ th[t].op \in Recorders) => CanAcquire(t)
    /\ (\A t \in Threads : th[t].pc = "idle")
          => (lock = LockFree /\ \A u \in Threads : CanAcquire(u))

\* the first call was left by an exception of the transport in its first wait
\* (the trigger it sent is still pending: no other exit leaves it so), and the
\* next call has acquired the lock
C33_Witness ==
    /\ calls = 2
    /\ th["t1"].pc = "sw_check"
    /\ th["t1"].op = "single"
    /\ hw.trg
    /\ hw.gen = 1
    /\ lock = [owner |-> "t1", depth |-> 1]

\* a sweep called by a recorder was left by an exception of the transport: the
\* exception has left both with statements and the lock is free
RecorderSweepRaised ==
    /\ th["t1"].pc = "idle"
    /\ th["t1"].op \in Recorders
    /\ th["t1"].ret.kind = "TransportError"
    /\ th["t1"].gen = hw.gen
    /\ hw.gen > 0
    /\ lock = LockFree

====
